---- MODULE Spec2Model ----
(***************************************************************************)
(* Logic simulator front end: the recursive-descent parser of              *)
(* src/logsim/parse.py driven by the symbols of src/logsim/scanner.py.     *)
(*                                                                         *)
(* The parser is modelled as a state machine: `pc` is the place in the     *)
(* code, `stack` the return places of the active calls, and every other    *)
(* variable is an attribute or local of Parser.  A definition file is a    *)
(* sequence of token spellings (`source`); get_symbol classifies the       *)
(* spelling under the scanner's cursor as scanner.py does.  Names,         *)
(* Devices, Network and Monitors are not part of src/ and are modelled     *)
(* from the specification (sections 4.1, 4.4, 4.5, 4.6).                   *)
(***************************************************************************)
EXTENDS Integers, Sequences, FiniteSets, TLC

\* ------------------------------------------------------------------------
\* Scanner vocabulary
\* ------------------------------------------------------------------------

\* Symbol.id / Symbol.position / Symbol.string of a Symbol() that was never
\* filled in (Python None).
None == -1
NoString == "<None>"

keywords_list ==
    << "CIRCUIT", "DEVICES", "CONNECT", "MONITOR", "END", "CLOCK", "SWITCH",
       "AND", "NAND", "OR", "NOR", "XOR", "NOT", "DTYPE" >>

\* Pin names the Devices class declares, and the user names of the model.
pin_names ==
    << "CLK", "SET", "CLEAR", "DATA", "Q", "QBAR",
       "I1", "I2", "I3", "I4", "I5", "I6", "I7", "I8",
       "I9", "I10", "I11", "I12", "I13", "I14", "I15", "I16" >>

user_names == << "A", "B", "X" >>

\* The Names table: keyword IDs occupy the prefix (I5), IDs are dense from 0.
names_list == keywords_list \o pin_names \o user_names

Range(s) == { s[i] : i \in 1..Len(s) }

\* Names.lookup of one string / Names.query: the ID of a known string.
lookup(name_string) ==
    (CHOOSE i \in 1..Len(names_list) : names_list[i] = name_string) - 1

query(name_string) ==
    IF name_string \in Range(names_list) THEN lookup(name_string) ELSE None

CIRCUIT_ID == lookup("CIRCUIT")
DEVICES_ID == lookup("DEVICES")
CONNECT_ID == lookup("CONNECT")
MONITOR_ID == lookup("MONITOR")
END_ID == lookup("END")
CLOCK_ID == lookup("CLOCK")
SWITCH_ID == lookup("SWITCH")
AND_ID == lookup("AND")
NAND_ID == lookup("NAND")
OR_ID == lookup("OR")
NOR_ID == lookup("NOR")
XOR_ID == lookup("XOR")
NOT_ID == lookup("NOT")
DTYPE_ID == lookup("DTYPE")

\* Spellings of the single-character symbols, with their symbol types.
punctuation ==
    [ s \in {",", ";", "=", "{", "}", "(", ")", ">", "."} |->
        CASE s = "," -> "COMMA"
          [] s = ";" -> "SEMICOLON"
          [] s = "=" -> "EQUALS"
          [] s = "{" -> "BRACE_LEFT"
          [] s = "}" -> "BRACE_RIGHT"
          [] s = "(" -> "PARENTHESIS_LEFT"
          [] s = ")" -> "PARENTHESIS_RIGHT"
          [] s = ">" -> "ARROW"
          [] s = "." -> "DOT" ]

\* Digit runs of the model with the integer get_number computes for them.
number_value ==
    [ s \in {"1", "2", "4", "5", "17"} |->
        CASE s = "1" -> 1
          [] s = "2" -> 2
          [] s = "4" -> 4
          [] s = "5" -> 5
          [] s = "17" -> 17 ]

\* A character that starts no symbol.
invalid_spellings == {"-"}

\* Two backslashes that open a comment no later pair closes: the rest of the
\* file is comment.
open_comment == "\\\\"

\* The symbol get_symbol builds for one spelling found at `position`.
Symbol(position, spelling) ==
    CASE spelling \in Range(keywords_list) ->
           [type |-> "KEYWORD", id |-> lookup(spelling),
            position |-> position, string |-> spelling]
      [] spelling \in Range(user_names) \cup Range(pin_names) ->
           [type |-> "NAME", id |-> lookup(spelling),
            position |-> position, string |-> spelling]
      [] spelling = "0" ->
           [type |-> "ZERO", id |-> 0, position |-> position, string |-> "0"]
      [] spelling \in DOMAIN number_value ->
           [type |-> "NUMBER", id |-> number_value[spelling],
            position |-> position, string |-> spelling]
      [] spelling \in DOMAIN punctuation ->
           [type |-> punctuation[spelling], id |-> None,
            position |-> position, string |-> spelling]
      [] spelling = "" ->
           [type |-> "EOF", id |-> None, position |-> position, string |-> ""]
      [] OTHER ->
           [type |-> "INVALID_CHARACTER", id |-> None,
            position |-> position, string |-> spelling]

\* Symbol(): the symbol __point makes for a point written without a pin.
EmptySymbol ==
    [type |-> "None", id |-> None, position |-> None, string |-> NoString]

\* ------------------------------------------------------------------------
\* Devices, Network, Monitors (specification sections 4.4 - 4.6)
\* ------------------------------------------------------------------------

\* An input with no connection; a connection is <<device_id, output_id>>.
NotConnected == << >>

\* Index of the device with this ID in the registry, 0 if there is none.
get_device(devs, device_id) ==
    IF \E i \in 1..Len(devs) : devs[i].device_id = device_id
    THEN CHOOSE i \in 1..Len(devs) :
           /\ devs[i].device_id = device_id
           /\ \A j \in 1..(i - 1) : devs[j].device_id # device_id
    ELSE 0

\* A device is registered under its ID once (I2): a second make_* for an ID
\* already present leaves the registry as it is.
add_device(devs, device) ==
    IF get_device(devs, device.device_id) # 0 THEN devs ELSE Append(devs, device)

make_switch(devs, device_id, initial_state) ==
    add_device(devs, [device_id |-> device_id, device_kind |-> "SWITCH",
                      property |-> initial_state,
                      inputs |-> [p \in {} |-> NotConnected],
                      outputs |-> {None}])

make_clock(devs, device_id, clock_half_period) ==
    add_device(devs, [device_id |-> device_id, device_kind |-> "CLOCK",
                      property |-> clock_half_period,
                      inputs |-> [p \in {} |-> NotConnected],
                      outputs |-> {None}])

\* Gate inputs are the pins I1 .. In.
make_gate(devs, device_id, device_kind, no_of_inputs) ==
    add_device(devs, [device_id |-> device_id, device_kind |-> device_kind,
                      property |-> no_of_inputs,
                      inputs |-> [p \in { lookup(pin_names[6 + k]) :
                                          k \in 1..no_of_inputs }
                                  |-> NotConnected],
                      outputs |-> {None}])

make_d_type(devs, device_id) ==
    add_device(devs, [device_id |-> device_id, device_kind |-> "DTYPE",
                      property |-> None,
                      inputs |-> [p \in { lookup("CLK"), lookup("SET"),
                                          lookup("CLEAR"), lookup("DATA") }
                                  |-> NotConnected],
                      outputs |-> { lookup("Q"), lookup("QBAR") }])

\* The error code Network.make_connection returns for a connection from
\* (first_device_id, first_port_id) to (second_device_id, second_port_id).
connection_error(devs, first_device_id, first_port_id, second_device_id, second_port_id) ==
    LET f == get_device(devs, first_device_id)
        s == get_device(devs, second_device_id)
    IN  CASE f = 0 -> "DEVICE_ABSENT_1"
          [] f # 0 /\ s = 0 -> "DEVICE_ABSENT_2"
          [] OTHER ->
             IF first_port_id \in DOMAIN devs[f].inputs
             THEN CASE devs[f].inputs[first_port_id] # NotConnected
                         -> "INPUT_CONNECTED"
                    [] second_port_id \in DOMAIN devs[s].inputs
                         -> "INPUT_TO_INPUT"
                    [] second_port_id \in devs[s].outputs -> "NO_ERROR"
                    [] OTHER -> "PORT_ABSENT_2"
             ELSE IF first_port_id \in devs[f].outputs
             THEN CASE second_port_id \in devs[s].outputs
                         -> "OUTPUT_TO_OUTPUT"
                    [] second_port_id \in DOMAIN devs[s].inputs ->
                         IF devs[s].inputs[second_port_id] # NotConnected
                         THEN "INPUT_CONNECTED" ELSE "NO_ERROR"
                    [] OTHER -> "PORT_ABSENT_2"
             ELSE "PORT_ABSENT_1"

\* The registry after Network.make_connection: on NO_ERROR the input of the
\* pair records the output it is driven by.
make_connection(devs, first_device_id, first_port_id, second_device_id, second_port_id) ==
    LET f == get_device(devs, first_device_id)
        s == get_device(devs, second_device_id)
    IN  IF connection_error(devs, first_device_id, first_port_id,
                            second_device_id, second_port_id) # "NO_ERROR"
        THEN devs
        ELSE IF first_port_id \in DOMAIN devs[f].inputs
        THEN [devs EXCEPT ![f].inputs[first_port_id] =
                             <<second_device_id, second_port_id>>]
        ELSE [devs EXCEPT ![s].inputs[second_port_id] =
                             <<first_device_id, first_port_id>>]

\* Network.check_network: the inputs with no connection, as <<device, pin>>
\* pairs (the code joins their names into a string; empty means none).
check_network(devs) ==
    UNION { LET device == devs[get_device(devs, devs[i].device_id)]
            IN  { <<device.device_id, p>> :
                    p \in { q \in DOMAIN device.inputs :
                              device.inputs[q] = NotConnected } } :
            i \in 1..Len(devs) }

\* The error code Monitors.make_monitor returns.
monitor_error(devs, mons, device_id, output_id) ==
    LET d == get_device(devs, device_id)
    IN  CASE d = 0 -> "DEVICE_ABSENT"
          [] d # 0 /\ output_id \notin devs[d].outputs -> "NOT_OUTPUT"
          [] d # 0 /\ output_id \in devs[d].outputs
                   /\ <<device_id, output_id>> \in mons -> "MONITOR_PRESENT"
          [] OTHER -> "NO_ERROR"

\* The monitored outputs after Monitors.make_monitor.
make_monitor(devs, mons, device_id, output_id) ==
    IF monitor_error(devs, mons, device_id, output_id) = "NO_ERROR"
    THEN mons \cup { <<device_id, output_id>> }
    ELSE mons

\* ------------------------------------------------------------------------
\* Definition files
\* ------------------------------------------------------------------------

\* Spellings a definition file of the model is written with.
Spellings ==
    Range(keywords_list) \cup Range(user_names) \cup {"I1", "I2", "Q"}
      \cup {"0"} \cup DOMAIN number_value \cup DOMAIN punctuation
      \cup invalid_spellings \cup {open_comment}

\* Longest definition file of which every token sequence is parsed.
MaxFree == 1

\* Two switches and a two-input gate, fully connected; two monitors.
switch_gate_file ==
    << "CIRCUIT", "{", "DEVICES", "{",
       "A", ",", "X", "=", "SWITCH", "(", "0", ")", ";",
       "B", "=", "NAND", "(", "2", ")", ";", "}",
       "CONNECT", "{", "A", ">", "B", ".", "I1", ",", "B", ".", "I2", ";", "}",
       "MONITOR", "{", "B", ";", "A", ";", "}", "}", "END" >>

\* A clock driving an inverter.
clock_not_file ==
    << "CIRCUIT", "{", "DEVICES", "{",
       "A", "=", "CLOCK", "(", "1", ")", ";", "B", "=", "NOT", ";", "}",
       "CONNECT", "{", "A", ">", "B", ".", "I1", ";", "}",
       "MONITOR", "{", "B", ";", "}", "}", "END" >>

\* A D-type named as the destination of a connection without a pin.
dtype_file ==
    << "CIRCUIT", "{", "DEVICES", "{",
       "A", "=", "DTYPE", ";", "B", "=", "SWITCH", "(", "1", ")", ";", "}",
       "CONNECT", "{", "B", ">", "A", ";", "}",
       "MONITOR", "{", "A", ".", "Q", ";", "}", "}", "END" >>

\* Every section empty.
empty_file ==
    << "CIRCUIT", "{", "DEVICES", "{", "}", "CONNECT", "{", "}",
       "MONITOR", "{", "}", "}", "END" >>

\* A circuit of one switch: nothing to connect.
empty_connect_file ==
    << "CIRCUIT", "{", "DEVICES", "{",
       "A", "=", "SWITCH", "(", "0", ")", ";", "}",
       "CONNECT", "{", "}", "MONITOR", "{", "A", ";", "}", "}", "END" >>

\* The clock and inverter with nothing monitored.
empty_monitor_file ==
    << "CIRCUIT", "{", "DEVICES", "{",
       "A", "=", "CLOCK", "(", "1", ")", ";", "B", "=", "NOT", ";", "}",
       "CONNECT", "{", "A", ">", "B", ".", "I1", ";", "}",
       "MONITOR", "{", "}", "}", "END" >>

\* A section keyword where the second device clause should start.
keyword_clause_file ==
    << "CIRCUIT", "{", "DEVICES", "{",
       "A", "=", "NOT", ";", "CONNECT", ";", "B", "=", "NOT", ";", "}",
       "CONNECT", "{", "A", ">", "B", ".", "I1", ";",
       "B", ">", "A", ".", "I1", ";", "}",
       "MONITOR", "{", "A", ";", "}", "}", "END" >>

\* One gate of kind g with parameter n, driving an inverter.
gate_file(g, n) ==
    << "CIRCUIT", "{", "DEVICES", "{",
       "A", "=", g, "(", n, ")", ";", "B", "=", "NOT", ";", "}",
       "CONNECT", "{", "A", ">", "B", ".", "I1", ";", "}",
       "MONITOR", "{", "B", ";", "}", "}", "END" >>

\* Each gate with a parameter that is zero, in range and too large.
GateFiles ==
    { gate_file(g, n) : g \in {"AND", "NAND", "OR", "NOR"},
                        n \in {"0", "2", "17"} }

Files ==
    { switch_gate_file, clock_not_file, dtype_file, empty_file,
      empty_connect_file, empty_monitor_file, keyword_clause_file }

\* The files one token away from f: a token replaced or removed, a token
\* added at the end, or the file cut short.
OneTokenAway(f) ==
    { SubSeq(f, 1, k - 1) \o <<t>> \o SubSeq(f, k + 1, Len(f)) :
        k \in 1..Len(f), t \in Spellings }
      \cup { f \o <<t>> : t \in Spellings }
      \cup { SubSeq(f, 1, k - 1) \o SubSeq(f, k + 1, Len(f)) : k \in 1..Len(f) }
      \cup { SubSeq(f, 1, k) : k \in 0..Len(f) }

\* Every token sequence of at most n tokens.
ShortFiles(n) == UNION { [1..m -> Spellings] : m \in 0..n }

\* A stray token before CIRCUIT, then a gate with a parameter out of range.
late_range_file == << ";" >> \o gate_file("AND", "17")

\* An XOR gate written with a parameter.
xor_param_file == gate_file("XOR", "2")

\* The definition files parsed: the seed files and the files one token away
\* from them, the files of at most n tokens, and the gate files.
Sources(n) ==
    Files \cup OneTokenAway(switch_gate_file) \cup OneTokenAway(clock_not_file)
      \cup OneTokenAway(dtype_file) \cup OneTokenAway(empty_file)
      \cup OneTokenAway(empty_connect_file)
      \cup OneTokenAway(empty_monitor_file)
      \cup OneTokenAway(keyword_clause_file)
      \cup ShortFiles(n) \cup GateFiles \cup {late_range_file, xor_param_file}

\* ------------------------------------------------------------------------
\* Parser state
\* ------------------------------------------------------------------------

VARIABLES
    source,                \* the definition file, as token spellings
    pos,                   \* number of symbols the scanner has returned
    symbol,                \* Parser.symbol
    check_symbol,          \* Parser.check_symbol (look-ahead of the list loops)
    error_,                \* Parser.error_
    error_count,           \* Parser.error_count
    skip,                  \* Parser.skip
    cur_attribute,         \* Parser.cur_attribute
    cur_device_name_list,  \* Parser.cur_device_name_list
    cur_pin_name_list,     \* Parser.cur_pin_name_list
    cur_arrow,             \* Parser.cur_arrow
    devices,               \* the Devices registry
    monitors,              \* the monitored outputs
    pc,                    \* place in the code
    stack,                 \* places the active calls return to
    returned,              \* value returned by __name / __point
    type_,                 \* argument `type` of __name
    stopping_symbol,       \* argument of the __error call in progress
    right_brace,           \* local of the list functions
    valid_device_list,     \* local of __device
    kind,                  \* branch of __device being executed
    connect_Symbol,        \* local of __connectionlist
    out_device_sym,        \* local of __con
    out_pin_sym,           \* local of __con
    con_i,                 \* local i of __con: the destination to connect next
    printed,               \* the print_error call of the last step, if any
    error_msg,             \* Parser.error_msg: its blocks and its closing count
    scanner_printed,       \* history: print_error calls made by the scanner
    file,                  \* the characters of the file the Scanner has opened
    scanner,               \* the Scanner's file_position, current_character,
                           \* comment, and file.tell()
    scanned,               \* the symbol Scanner.get_symbol returned last
    output,                \* what the Scanner's last call printed
    cycles_completed,      \* Gui.cycles_completed
    monitors_dictionary,   \* Monitors.monitors_dictionary: signal -> trace
    gui_pc,                \* where the driver is: idle, or in run_network
    cycles,                \* the argument of the run_network call under way
    left,                  \* the iterations its loop has still to make
    run_log,               \* history: what execute_network returned in the
                           \* latest run_network call, in order
    records,               \* history: record_signals calls of that call
    created,               \* history: cycles_already_run at each make_monitor
    oscillated,            \* history: some run has ended in oscillation
    names_table,           \* MyNames.names_list
    version,               \* which MyNames the table is an instance of
    call,                  \* history: the last call on the table, its
                           \* argument and what it gave
    first_lookups,         \* history: the strings looked up, in order of
                           \* their first lookup
    result,                \* what parse_network returned
    first_run,             \* what an earlier parse of the same file ended
                           \* with, if the file is being parsed again
    connections,           \* Network: the output each input is connected to
    input_for_swap,        \* Gui.input_for_swap
    output_for_swap,       \* Gui.output_for_swap
    swap_conn_box,         \* Gui.swap_conn_box: its choices and its selection
    new_conn_box,          \* Gui.new_conn_box: its choices and its selection
    replace_log,           \* history: the replace_connection calls of the
                           \* latest on_replace_button
    chosen_for,            \* history: the input selected when output_for_swap
                           \* was chosen
    raised_at,             \* history: symbol current when __error began to skip
    entered,               \* history: symbol and error count at a section's entry
    iteration,             \* history: symbol at the start of a list loop iteration
    redeclared,            \* history: a make_* call named a registered device
    steps                  \* history: steps taken so far

parser_vars ==
    << source, pos, symbol, check_symbol, error_, error_count, skip,
       cur_attribute, cur_device_name_list, cur_pin_name_list, cur_arrow,
       devices, monitors, pc, stack, returned, type_, stopping_symbol,
       right_brace, valid_device_list, kind, connect_Symbol, out_device_sym,
       out_pin_sym, printed, result, raised_at, entered, iteration,
       redeclared, steps, con_i, error_msg, scanner_printed, first_run >>

scan_vars == << file, scanner, scanned, output >>

driver_vars ==
    << cycles_completed, monitors_dictionary, gui_pc, cycles, left, run_log,
       records, created, oscillated >>

table_vars == << names_table, version, call, first_lookups >>

swap_vars ==
    << connections, input_for_swap, output_for_swap, swap_conn_box,
       new_conn_box, replace_log, chosen_for >>

\* What the parser leaves alone.
outside == << scan_vars, driver_vars, table_vars, swap_vars, first_run >>

vars == << parser_vars, scan_vars, driver_vars, table_vars, swap_vars >>

\* Groups of variables that actions leave alone together.
lists == << cur_device_name_list, cur_pin_name_list >>
circuit_vars == << devices, monitors, redeclared >>
device_locals == << valid_device_list, kind, cur_attribute >>
con_locals == << connect_Symbol, out_device_sym, out_pin_sym, cur_arrow, con_i >>
name_vars == << type_, returned >>
list_vars == << right_brace, check_symbol, entered, iteration >>
fixed == << source, result >>

\* No print_error call.
NoPrint == [message |-> "", symbol |-> EmptySymbol]

\* Where print_error puts the caret: at symbol.position, which get_symbol
\* takes before it reads the characters of the symbol, so under the first
\* character of the token.
caret(sym) == [token |-> sym.position, char |-> 1]

\* Scanner.comment after n symbols have been returned: the file ran out
\* inside a comment.
comment_at(n) ==
    \E k \in 1..n : k <= Len(source) /\ source[k] = open_comment

\* The symbol get_symbol returns after p others: the next one of the file,
\* EOF from its end, or from a comment that is not closed, on.
symbol_at(p) ==
    IF p < Len(source) /\ ~comment_at(p + 1)
    THEN Symbol(p, source[p + 1])
    ELSE Symbol(p, "")

\* Scanner.get_symbol
get_symbol == symbol_at(pos)

\* The scanner's side of a get_symbol call: the cursor moves on, and EOF
\* inside a comment is printed as an error by the scanner itself.
Read ==
    /\ pos' = pos + 1
    /\ scanner_printed' =
         IF comment_at(pos + 1) THEN scanner_printed + 1 ELSE scanner_printed

\* self.symbol = self.scanner.get_symbol()
Advance == symbol' = get_symbol /\ Read

Stay == UNCHANGED << symbol, pos, scanner_printed >>

\* self.error_msg += "\n\n" + error_output: one more block, after the skipping
\* loop, in which nothing else is appended.
Appended(message, sym) ==
    [error_msg EXCEPT !.blocks = Append(@, [message |-> message, symbol |-> sym])]

\* A step that calls no __error and continues at `place`.
Goto(place, frames) ==
    /\ pc' = place
    /\ stack' = frames
    /\ printed' = NoPrint
    /\ steps' = steps + 1
    /\ UNCHANGED << error_, error_count, stopping_symbol, raised_at >>
    /\ UNCHANGED outside

\* The same, for every step but the last of parse_network.
Continue(place, frames) == Goto(place, frames) /\ UNCHANGED error_msg

\* Return to the caller.
Return == Continue(Head(stack), Tail(stack))

\* __error as it would be if it counted the error without setting error_.
error_unflagged(message, stop, sym, place, frames) ==
    /\ error_' = error_
    /\ error_count' = error_count + 1
    /\ printed' = [message |-> message, symbol |-> sym]
    /\ steps' = steps + 1
    /\ UNCHANGED outside
    /\ IF sym.position = None
       THEN /\ pc' = "raised"
            /\ stack' = frames
            /\ UNCHANGED << stopping_symbol, raised_at, error_msg >>
       ELSE IF stop # NoString
            THEN /\ pc' = "error_skip"
                 /\ stack' = << place >> \o frames
                 /\ stopping_symbol' = stop
                 /\ raised_at' = symbol.position
                 /\ error_msg' = Appended(message, sym)
            ELSE /\ pc' = place
                 /\ stack' = frames
                 /\ error_msg' = Appended(message, sym)
                 /\ UNCHANGED << stopping_symbol, raised_at >>

\* Parser.__error(message, stopping_symbol, symbol), then continue at `place`.
\* print_error subtracts symbol.position from the line starts, which raises
\* for a symbol without a position.
error(message, stop, sym, place, frames) ==
    /\ error_' = TRUE
    /\ error_count' = error_count + 1
    /\ printed' = [message |-> message, symbol |-> sym]
    /\ steps' = steps + 1
    /\ UNCHANGED outside
    /\ IF sym.position = None
       THEN /\ pc' = "raised"
            /\ stack' = frames
            /\ UNCHANGED << stopping_symbol, raised_at, error_msg >>
       ELSE IF stop # NoString
       THEN /\ pc' = "error_skip"
            /\ stack' = <<place>> \o frames
            /\ stopping_symbol' = stop
            /\ raised_at' = symbol.position
            /\ error_msg' = Appended(message, sym)
       ELSE /\ pc' = place
            /\ stack' = frames
            /\ error_msg' = Appended(message, sym)
            /\ UNCHANGED << stopping_symbol, raised_at >>

\* The skipping loop of __error as it would be if it tested the symbol
\* without reading the next one.
error_skip_without_read ==
    /\ pc = "error_skip"
    /\ Stay
    /\ IF symbol.string # stopping_symbol /\ symbol.type # "EOF"
       THEN Continue("error_skip", stack)
       ELSE Return
    /\ UNCHANGED << skip, lists, circuit_vars, device_locals, con_locals,
                    name_vars, list_vars, fixed >>

\* The skipping loop of __error.
error_skip ==
    /\ pc = "error_skip"
    /\ IF symbol.string # stopping_symbol /\ symbol.type # "EOF"
       THEN /\ Advance
            /\ Continue("error_skip", stack)
       ELSE /\ Stay
            /\ Return
    /\ UNCHANGED << skip, lists, circuit_vars, device_locals, con_locals,
                    name_vars, list_vars, fixed >>

\* ------------------------------------------------------------------------
\* parse_network, __circuit
\* ------------------------------------------------------------------------

KeywordNameMessage == "Names cannot be Keywords"
KeywordDeviceNameMessage == "Device names cannot be Keywords"
UnsupportedDeviceMessage == "Not a supported device"

IsKeyword(sym, id) == sym.type = "KEYWORD" /\ sym.id = id

\* parse_network after __circuit has returned: the END keyword.
parse_network ==
    /\ pc = "parse_network"
    /\ IF IsKeyword(symbol, END_ID)
       THEN /\ Advance
            /\ Continue("parse_network_return", stack)
       ELSE /\ Stay
            /\ error("Expected 'END'", ";", symbol, "parse_network_return", stack)
    /\ UNCHANGED << skip, lists, circuit_vars, device_locals, con_locals,
                    name_vars, list_vars, fixed >>

\* return not self.error_
parse_network_return ==
    /\ pc = "parse_network_return"
    /\ result' = IF error_ THEN "False" ELSE "True"
    /\ error_msg' = [error_msg EXCEPT !.total = error_count]
    /\ Stay
    /\ Goto("done", stack)
    /\ UNCHANGED << skip, lists, circuit_vars, device_locals, con_locals,
                    name_vars, list_vars, source >>

\* __circuit: the CIRCUIT keyword.
circuit ==
    /\ pc = "circuit"
    /\ IF IsKeyword(symbol, CIRCUIT_ID)
       THEN /\ Advance
            /\ Continue("circuit_brace", stack)
       ELSE /\ Stay
            /\ error("Expected 'CIRCUIT'", "{", symbol, "circuit_brace", stack)
    /\ UNCHANGED << skip, lists, circuit_vars, device_locals, con_locals,
                    name_vars, list_vars, fixed >>

\* __circuit: the left brace, then the three sections in turn.
circuit_brace ==
    /\ pc = "circuit_brace"
    /\ LET frames == << "connectionlist", "monitorlist", "circuit_end" >> \o stack
       IN  IF symbol.type = "BRACE_LEFT"
           THEN /\ Advance
                /\ Continue("devicelist", frames)
           ELSE /\ Stay
                /\ error("Expected '{'", NoString, symbol, "devicelist", frames)
    /\ UNCHANGED << skip, lists, circuit_vars, device_locals, con_locals,
                    name_vars, list_vars, fixed >>

\* __circuit: the right brace.
circuit_end ==
    /\ pc = "circuit_end"
    /\ IF symbol.type = "BRACE_RIGHT"
       THEN /\ Advance
            /\ Return
       ELSE /\ Stay
            /\ error("Expected '}'", NoString, symbol, Head(stack), Tail(stack))
    /\ UNCHANGED << skip, lists, circuit_vars, device_locals, con_locals,
                    name_vars, list_vars, fixed >>

\* ------------------------------------------------------------------------
\* __devicelist
\* ------------------------------------------------------------------------

\* Where a section starts: the symbol and the errors counted so far.
Entry == [position |-> symbol.position, errors |-> error_count]

\* A list loop is entered: while the symbol is neither '}' nor EOF.
InList == symbol.type # "BRACE_RIGHT" /\ symbol.type # "EOF"

\* __devicelist: the DEVICES keyword.
devicelist ==
    /\ pc = "devicelist"
    /\ right_brace' = TRUE
    /\ entered' = Entry
    /\ IF IsKeyword(symbol, DEVICES_ID)
       THEN /\ Advance
            /\ Continue("devicelist_brace", stack)
       ELSE /\ Stay
            /\ error("Expected 'DEVICES'", "{", symbol, "devicelist_brace", stack)
    /\ UNCHANGED << skip, lists, circuit_vars, device_locals, con_locals,
                    name_vars, check_symbol, iteration, fixed >>

\* __devicelist: the left brace, then the first __device.
devicelist_brace ==
    /\ pc = "devicelist_brace"
    /\ LET frames == << "devicelist_loop" >> \o stack
       IN  IF symbol.type = "BRACE_LEFT"
           THEN /\ Advance
                /\ Continue("device", frames)
           ELSE /\ Stay
                /\ error("Expected '{'", NoString, symbol, "device", frames)
    /\ UNCHANGED << skip, lists, circuit_vars, device_locals, con_locals,
                    name_vars, list_vars, fixed >>

\* __devicelist: the head of the while loop and the CONNECT look-ahead.
devicelist_loop ==
    /\ pc = "devicelist_loop"
    /\ IF InList
       THEN /\ iteration' = symbol.position
            /\ IF symbol.id = CONNECT_ID
               THEN /\ check_symbol' = get_symbol
                    /\ Read
                    /\ symbol' = symbol
                    /\ Continue("devicelist_check", stack)
               ELSE /\ Stay
                    /\ Continue("device", << "devicelist_loop" >> \o stack)
                    /\ UNCHANGED check_symbol
       ELSE /\ iteration' = None
            /\ Stay
            /\ Continue("devicelist_end", stack)
            /\ UNCHANGED check_symbol
    /\ UNCHANGED << skip, lists, circuit_vars, device_locals, con_locals,
                    name_vars, right_brace, entered, fixed >>

\* __devicelist: CONNECT '{' is a missing right brace, CONNECT anything else
\* a keyword used as a device name.
devicelist_check ==
    /\ pc = "devicelist_check"
    /\ IF check_symbol.type = "BRACE_LEFT"
       THEN /\ skip' = TRUE
            /\ error("Expected '}'", NoString, symbol, "devicelist_end", stack)
            /\ symbol' = check_symbol
            /\ right_brace' = FALSE
       ELSE /\ error(KeywordDeviceNameMessage, ";", symbol, "devicelist_keyword", stack)
            /\ UNCHANGED << skip, symbol, right_brace >>
    /\ UNCHANGED << pos, scanner_printed, lists, circuit_vars, device_locals, con_locals,
                    name_vars, check_symbol, entered, iteration, fixed >>

\* __devicelist: after the keyword error, the next symbol and __device.
devicelist_keyword ==
    /\ pc = "devicelist_keyword"
    /\ Advance
    /\ Continue("device", << "devicelist_loop" >> \o stack)
    /\ UNCHANGED << skip, lists, circuit_vars, device_locals, con_locals,
                    name_vars, list_vars, fixed >>

\* __devicelist: past the right brace, unless the loop was left by break.
devicelist_end ==
    /\ pc = "devicelist_end"
    /\ IF right_brace THEN Advance ELSE Stay
    /\ iteration' = None
    /\ Return
    /\ UNCHANGED << skip, lists, circuit_vars, device_locals, con_locals,
                    name_vars, right_brace, check_symbol, entered, fixed >>

\* ------------------------------------------------------------------------
\* __device, __devicename, __name
\* ------------------------------------------------------------------------

\* Python truth of a value returned by __name (it returns None after the
\* keyword error).
Truthy(value) == value = "True"

\* The make_* call of one branch of __device.
make_device(devs, device_id, device_kind, attribute) ==
    CASE device_kind = "CLOCK" -> make_clock(devs, device_id, attribute)
      [] device_kind = "SWITCH" -> make_switch(devs, device_id, attribute)
      [] device_kind \in {"AND", "NAND", "OR", "NOR"} ->
           make_gate(devs, device_id, device_kind, attribute)
      [] device_kind = "XOR" -> make_gate(devs, device_id, "XOR", 2)
      [] device_kind = "NOT" -> make_gate(devs, device_id, "NOT", 1)
      [] device_kind = "DTYPE" -> make_d_type(devs, device_id)

\* for device_id in device_ids: self.__devices.make_...(device_id, ...)
RECURSIVE make_devices(_, _, _, _)
make_devices(devs, name_list, device_kind, attribute) ==
    IF name_list = << >> THEN devs
    ELSE make_devices(make_device(devs, lookup(Head(name_list).string),
                                  device_kind, attribute),
                      Tail(name_list), device_kind, attribute)

\* The branch's make_* calls as they would be made whatever was reported.
Make_whatever_reported(device_kind) ==
    LET made == make_devices(devices, cur_device_name_list,
                             device_kind, cur_attribute)
    IN  /\ devices' = made
        /\ redeclared' =
             (redeclared
                \/ Len(made) < Len(devices) + Len(cur_device_name_list))

\* The registry after the branch's make_* calls, made only if no error has
\* been reported; `redeclared` notes a call for an ID already registered.
Make(device_kind) ==
    IF error_
    THEN UNCHANGED << devices, redeclared >>
    ELSE LET made == make_devices(devices, cur_device_name_list,
                                  device_kind, cur_attribute)
         IN  /\ devices' = made
             /\ redeclared' =
                  (redeclared
                     \/ Len(made) < Len(devices) + Len(cur_device_name_list))

\* __device: the first device name.
device ==
    /\ pc = "device"
    /\ cur_device_name_list' = << >>
    /\ type_' = "devicename"
    /\ Stay
    /\ Continue("name", << "device_named" >> \o stack)
    /\ UNCHANGED << skip, cur_pin_name_list, circuit_vars, device_locals,
                    con_locals, returned, list_vars, fixed >>

\* __name as it would be without its keyword branch: a keyword is reported
\* like any other symbol that is not a name.
name_without_keyword_branch ==
    /\ pc = "name"
    /\ IF symbol.type = "NAME"
       THEN /\ cur_device_name_list' =
                 IF type_ = "devicename" /\ ~error_
                 THEN Append(cur_device_name_list, symbol)
                 ELSE cur_device_name_list
            /\ cur_pin_name_list' =
                 IF type_ = "pinname" /\ ~error_
                 THEN Append(cur_pin_name_list, symbol)
                 ELSE cur_pin_name_list
            /\ Advance
            /\ returned' = "True"
            /\ Return
       ELSE /\ Stay
            /\ UNCHANGED lists
            /\ returned' = "False"
            /\ error(IF type_ = "devicename"
                     THEN "Device names must start with a letter and be alphanumeric"
                     ELSE "Pin names must start with a letter and be alphanumeric",
                     ";", symbol, Head(stack), Tail(stack))
    /\ UNCHANGED << skip, circuit_vars, device_locals, con_locals, type_,
                    list_vars, fixed >>

\* __name: a NAME is taken, a keyword or anything else is an error.
name ==
    /\ pc = "name"
    /\ IF symbol.type = "NAME"
       THEN /\ cur_device_name_list' =
                 IF type_ = "devicename" /\ ~error_
                 THEN Append(cur_device_name_list, symbol)
                 ELSE cur_device_name_list
            /\ cur_pin_name_list' =
                 IF type_ = "pinname" /\ ~error_
                 THEN Append(cur_pin_name_list, symbol)
                 ELSE cur_pin_name_list
            /\ Advance
            /\ returned' = "True"
            /\ Return
       ELSE /\ Stay
            /\ UNCHANGED lists
            /\ IF symbol.type = "KEYWORD"
               THEN /\ returned' = "None"
                    /\ error(KeywordNameMessage, ";", symbol,
                             Head(stack), Tail(stack))
               ELSE /\ returned' = "False"
                    /\ error(IF type_ = "devicename"
                             THEN "Device names must start with a letter and be alphanumeric"
                             ELSE "Pin names must start with a letter and be alphanumeric",
                             ";", symbol, Head(stack), Tail(stack))
    /\ UNCHANGED << skip, circuit_vars, device_locals, con_locals, type_,
                    list_vars, fixed >>

\* __device: a device name has been parsed.
device_named ==
    /\ pc = "device_named"
    /\ valid_device_list' = Truthy(returned)
    /\ Stay
    /\ Continue("device_list", stack)
    /\ UNCHANGED << skip, lists, circuit_vars, kind, cur_attribute, con_locals,
                    name_vars, list_vars, fixed >>

\* __device: the comma loop, then the equals sign.
device_list ==
    /\ pc = "device_list"
    /\ IF symbol.type = "COMMA" /\ symbol.type # "EOF" /\ valid_device_list
       THEN /\ Advance
            /\ Continue("name", << "device_named" >> \o stack)
       ELSE IF valid_device_list
       THEN IF symbol.type = "EQUALS"
            THEN /\ Advance
                 /\ Continue("device_kind", stack)
            ELSE /\ Stay
                 /\ error("Expected '=' or ','", ";", symbol, "device_end", stack)
       ELSE /\ Stay
            /\ Continue("device_end", stack)
    /\ UNCHANGED << skip, lists, circuit_vars, device_locals, con_locals,
                    name_vars, list_vars, fixed >>

\* __device: the branch on the ID of the symbol after '='.
device_kind ==
    /\ pc = "device_kind"
    /\ CASE symbol.id = CLOCK_ID ->
              /\ Advance
              /\ kind' = "CLOCK"
              /\ Continue("clock", << "device_make" >> \o stack)
              /\ UNCHANGED circuit_vars
         [] symbol.id = SWITCH_ID ->
              /\ Advance
              /\ kind' = "SWITCH"
              /\ Continue("switch", << "device_make" >> \o stack)
              /\ UNCHANGED circuit_vars
         [] symbol.id \in {AND_ID, NAND_ID, OR_ID, NOR_ID} ->
              /\ Advance
              /\ kind' = names_list[symbol.id + 1]
              /\ Continue("gate", << "device_make" >> \o stack)
              /\ UNCHANGED circuit_vars
         [] symbol.id \in {DTYPE_ID, XOR_ID, NOT_ID} ->
              /\ Advance
              /\ kind' = names_list[symbol.id + 1]
              /\ Make(names_list[symbol.id + 1])
              /\ monitors' = monitors
              /\ Continue("device_end", stack)
         [] OTHER ->
              /\ Stay
              /\ error(UnsupportedDeviceMessage, ";", symbol, "device_end", stack)
              /\ UNCHANGED << kind, circuit_vars >>
    /\ UNCHANGED << skip, lists, valid_device_list, cur_attribute, con_locals,
                    name_vars, list_vars, fixed >>

\* __device: the make_* calls after __clock, __switch or a gate function.
device_make ==
    /\ pc = "device_make"
    /\ Make(kind)
    /\ monitors' = monitors
    /\ Stay
    /\ Continue("device_end", stack)
    /\ UNCHANGED << skip, lists, device_locals, con_locals, name_vars,
                    list_vars, fixed >>

\* __device: the semicolon.
device_end ==
    /\ pc = "device_end"
    /\ IF symbol.type = "SEMICOLON"
       THEN /\ Advance
            /\ Return
       ELSE /\ Stay
            /\ error("Expected ';'", NoString, symbol, Head(stack), Tail(stack))
    /\ UNCHANGED << skip, lists, circuit_vars, device_locals, con_locals,
                    name_vars, list_vars, fixed >>

\* ------------------------------------------------------------------------
\* __clock, __switch, __And, __nand, __nor, __oor
\* ------------------------------------------------------------------------

\* int(self.symbol.string) of a NUMBER symbol.
int(sym) == number_value[sym.string]

\* The left parenthesis of a clock, then its half period.
clock ==
    /\ pc = "clock"
    /\ IF symbol.type = "PARENTHESIS_LEFT"
       THEN /\ Advance
            /\ Continue("clock_number", stack)
       ELSE /\ Stay
            /\ error("Expected '('", ";", symbol, Head(stack), Tail(stack))
    /\ UNCHANGED << skip, lists, circuit_vars, device_locals, con_locals,
                    name_vars, list_vars, fixed >>

ClockRangeMessage == "Clock half period must be greater than 0"
ClockNumberMessage == "Expected a number n > 0"

\* __clock as it would be if the scanner's ZERO symbol were taken for a
\* number, the number 0.
clock_number_with_zero ==
    /\ pc = "clock_number"
    /\ IF symbol.type \in {"NUMBER", "ZERO"}
       THEN IF symbol.type = "ZERO" \/ int(symbol) <= 0
            THEN /\ Stay
                 /\ error(ClockRangeMessage, ";", symbol, "parameter_end",
                          stack)
                 /\ UNCHANGED cur_attribute
            ELSE /\ cur_attribute' = IF ~error_ THEN int(symbol) ELSE cur_attribute
                 /\ IF ~skip
                    THEN Advance /\ Continue("parameter_close", stack)
                    ELSE Stay /\ Continue("parameter_end", stack)
       ELSE /\ Stay
            /\ error(ClockNumberMessage, ";", symbol, Head(stack), Tail(stack))
            /\ UNCHANGED cur_attribute
    /\ UNCHANGED << skip, lists, circuit_vars, valid_device_list, kind,
                    con_locals, name_vars, list_vars, fixed >>

\* __clock: the half period, which must be a NUMBER greater than 0.
clock_number ==
    /\ pc = "clock_number"
    /\ IF symbol.type = "NUMBER"
       THEN IF int(symbol) <= 0
            THEN /\ Stay
                 /\ error(ClockRangeMessage, ";", symbol, "parameter_end",
                          stack)
                 /\ UNCHANGED cur_attribute
            ELSE /\ cur_attribute' = IF ~error_ THEN int(symbol) ELSE cur_attribute
                 /\ IF ~skip
                    THEN Advance /\ Continue("parameter_close", stack)
                    ELSE Stay /\ Continue("parameter_end", stack)
       ELSE /\ Stay
            /\ error(ClockNumberMessage, ";", symbol, Head(stack), Tail(stack))
            /\ UNCHANGED cur_attribute
    /\ UNCHANGED << skip, lists, circuit_vars, valid_device_list, kind,
                    con_locals, name_vars, list_vars, fixed >>

\* __clock and the gate functions: the right parenthesis, then skip = False.
parameter_close ==
    /\ pc = "parameter_close"
    /\ IF symbol.type = "PARENTHESIS_RIGHT"
       THEN /\ Advance
            /\ skip' = FALSE
            /\ Return
       ELSE /\ Stay
            /\ error("Expected ')'", ";", symbol, "parameter_end", stack)
            /\ UNCHANGED skip
    /\ UNCHANGED << lists, circuit_vars, device_locals, con_locals, name_vars,
                    list_vars, fixed >>

\* __clock and the gate functions, after a reported parameter: skip = False.
parameter_end ==
    /\ pc = "parameter_end"
    /\ skip' = FALSE
    /\ Stay
    /\ Return
    /\ UNCHANGED << lists, circuit_vars, device_locals, con_locals, name_vars,
                    list_vars, fixed >>

\* __switch: the left parenthesis.
switch ==
    /\ pc = "switch"
    /\ IF symbol.type = "PARENTHESIS_LEFT"
       THEN /\ Advance
            /\ Continue("switch_state", stack)
       ELSE /\ Stay
            /\ error("Expected '('", ";", symbol, Head(stack), Tail(stack))
    /\ UNCHANGED << skip, lists, circuit_vars, device_locals, con_locals,
                    name_vars, list_vars, fixed >>

\* __switch: the initial state, a symbol whose ID is 0 or 1.
switch_state ==
    /\ pc = "switch_state"
    /\ IF symbol.id = 0 \/ symbol.id = 1
       THEN /\ cur_attribute' = IF ~error_ THEN symbol.id ELSE cur_attribute
            /\ Advance
            /\ Continue("switch_close", stack)
       ELSE /\ Stay
            /\ error("Expected state, either 0(OFF) or 1(ON)", ";", symbol,
                     Head(stack), Tail(stack))
            /\ UNCHANGED cur_attribute
    /\ UNCHANGED << skip, lists, circuit_vars, valid_device_list, kind,
                    con_locals, name_vars, list_vars, fixed >>

\* __switch: the right parenthesis.
switch_close ==
    /\ pc = "switch_close"
    /\ IF symbol.type = "PARENTHESIS_RIGHT"
       THEN /\ Advance
            /\ Return
       ELSE /\ Stay
            /\ error("Expected ')'", ";", symbol, Head(stack), Tail(stack))
    /\ UNCHANGED << skip, lists, circuit_vars, device_locals, con_locals,
                    name_vars, list_vars, fixed >>

\* __And, __nand, __nor, __oor: the left parenthesis.
gate ==
    /\ pc = "gate"
    /\ IF symbol.type = "PARENTHESIS_LEFT"
       THEN /\ Advance
            /\ Continue("gate_number", stack)
       ELSE /\ Stay
            /\ error("Expected '('", ";", symbol, Head(stack), Tail(stack))
    /\ UNCHANGED << skip, lists, circuit_vars, device_locals, con_locals,
                    name_vars, list_vars, fixed >>

GateRangeMessage == "Number of inputs must be between 1-16"

\* The message of each gate function when no NUMBER follows the parenthesis
\* (the code names the gate in it).
GateNumberMessage == "Expected number of inputs for gate (valid range: 1-16)"

\* The gate functions as they would be if the scanner's ZERO symbol were
\* taken for a number, the number 0.
gate_number_with_zero ==
    /\ pc = "gate_number"
    /\ IF symbol.type \in {"NUMBER", "ZERO"}
       THEN IF symbol.type = "ZERO" \/ ~(0 < int(symbol) /\ int(symbol) <= 16)
            THEN /\ skip' = TRUE
                 /\ Stay
                 /\ error(GateRangeMessage, ";", symbol, "parameter_end",
                          stack)
                 /\ UNCHANGED cur_attribute
            ELSE /\ cur_attribute' = IF ~error_ THEN int(symbol) ELSE cur_attribute
                 /\ UNCHANGED skip
                 /\ IF ~skip
                    THEN Advance /\ Continue("parameter_close", stack)
                    ELSE Stay /\ Continue("parameter_end", stack)
       ELSE /\ Stay
            /\ error(GateNumberMessage, ";", symbol, Head(stack), Tail(stack))
            /\ UNCHANGED << skip, cur_attribute >>
    /\ UNCHANGED << lists, circuit_vars, valid_device_list, kind, con_locals,
                    name_vars, list_vars, fixed >>

\* The gate functions as they would be if they reported a number out of
\* range after reading past it.
gate_number_read_first ==
    /\ pc = "gate_number"
    /\ IF symbol.type = "NUMBER"
       THEN IF ~(0 < int(symbol) /\ int(symbol) <= 16)
            THEN /\ skip' = TRUE
                 /\ Advance
                 /\ error(GateRangeMessage, ";", get_symbol, "parameter_end",
                          stack)
                 /\ UNCHANGED cur_attribute
            ELSE /\ cur_attribute' = IF ~error_ THEN int(symbol) ELSE cur_attribute
                 /\ UNCHANGED skip
                 /\ IF ~skip
                    THEN Advance /\ Continue("parameter_close", stack)
                    ELSE Stay /\ Continue("parameter_end", stack)
       ELSE /\ Stay
            /\ error(GateNumberMessage, ";", symbol, Head(stack), Tail(stack))
            /\ UNCHANGED << skip, cur_attribute >>
    /\ UNCHANGED << lists, circuit_vars, valid_device_list, kind, con_locals,
                    name_vars, list_vars, fixed >>

\* __And, __nand, __nor, __oor: the number of inputs, a NUMBER in 1..16.
gate_number ==
    /\ pc = "gate_number"
    /\ IF symbol.type = "NUMBER"
       THEN IF ~(0 < int(symbol) /\ int(symbol) <= 16)
            THEN /\ skip' = TRUE
                 /\ Stay
                 /\ error(GateRangeMessage, ";", symbol, "parameter_end",
                          stack)
                 /\ UNCHANGED cur_attribute
            ELSE /\ cur_attribute' = IF ~error_ THEN int(symbol) ELSE cur_attribute
                 /\ UNCHANGED skip
                 /\ IF ~skip
                    THEN Advance /\ Continue("parameter_close", stack)
                    ELSE Stay /\ Continue("parameter_end", stack)
       ELSE /\ Stay
            /\ error(GateNumberMessage, ";", symbol, Head(stack), Tail(stack))
            /\ UNCHANGED << skip, cur_attribute >>
    /\ UNCHANGED << lists, circuit_vars, valid_device_list, kind, con_locals,
                    name_vars, list_vars, fixed >>

\* ------------------------------------------------------------------------
\* __connectionlist
\* ------------------------------------------------------------------------

\* __connectionlist: the CONNECT keyword, unless __devicelist has read it.
connectionlist ==
    /\ pc = "connectionlist"
    /\ connect_Symbol' = symbol
    /\ right_brace' = TRUE
    /\ entered' = Entry
    /\ IF ~skip
       THEN IF IsKeyword(symbol, CONNECT_ID)
            THEN /\ Advance
                 /\ Continue("connectionlist_brace", stack)
            ELSE /\ Stay
                 /\ error("Expected 'CONNECT'", "{", symbol,
                          "connectionlist_brace", stack)
       ELSE /\ Stay
            /\ Continue("connectionlist_brace", stack)
    /\ UNCHANGED << skip, lists, circuit_vars, device_locals, out_device_sym,
                    out_pin_sym, cur_arrow, con_i, name_vars, check_symbol,
                    iteration, fixed >>

\* __connectionlist: the left brace, then the first __con.
connectionlist_brace ==
    /\ pc = "connectionlist_brace"
    /\ skip' = FALSE
    /\ LET frames == << "connectionlist_loop" >> \o stack
       IN  IF symbol.type = "BRACE_LEFT"
           THEN /\ Advance
                /\ Continue("con", frames)
           ELSE /\ Stay
                /\ error("Expected '{'", NoString, symbol, "con", frames)
    /\ UNCHANGED << lists, circuit_vars, device_locals, con_locals, name_vars,
                    list_vars, fixed >>

\* __connectionlist: the head of the while loop and the MONITOR look-ahead.
connectionlist_loop ==
    /\ pc = "connectionlist_loop"
    /\ IF InList
       THEN /\ iteration' = symbol.position
            /\ IF symbol.id = MONITOR_ID
               THEN /\ check_symbol' = get_symbol
                    /\ Read
                    /\ symbol' = symbol
                    /\ Continue("connectionlist_check", stack)
               ELSE /\ Stay
                    /\ Continue("con", << "connectionlist_loop" >> \o stack)
                    /\ UNCHANGED check_symbol
       ELSE /\ iteration' = None
            /\ Stay
            /\ Continue("connectionlist_end", stack)
            /\ UNCHANGED check_symbol
    /\ UNCHANGED << skip, lists, circuit_vars, device_locals, con_locals,
                    name_vars, right_brace, entered, fixed >>

\* __connectionlist: MONITOR '{' is a missing right brace, MONITOR anything
\* else a keyword used as a device name.
connectionlist_check ==
    /\ pc = "connectionlist_check"
    /\ IF check_symbol.type = "BRACE_LEFT"
       THEN /\ skip' = TRUE
            /\ error("Expected '}'", NoString, symbol, "connectionlist_end", stack)
            /\ symbol' = check_symbol
            /\ right_brace' = FALSE
       ELSE /\ error(KeywordDeviceNameMessage, ";", symbol,
                     "connectionlist_keyword", stack)
            /\ UNCHANGED << skip, symbol, right_brace >>
    /\ UNCHANGED << pos, scanner_printed, lists, circuit_vars, device_locals, con_locals,
                    name_vars, check_symbol, entered, iteration, fixed >>

\* __connectionlist: after the keyword error, the next symbol and __con.
connectionlist_keyword ==
    /\ pc = "connectionlist_keyword"
    /\ Advance
    /\ Continue("con", << "connectionlist_loop" >> \o stack)
    /\ UNCHANGED << skip, lists, circuit_vars, device_locals, con_locals,
                    name_vars, list_vars, fixed >>

\* __connectionlist's end as it would be without the check_network call.
connectionlist_end_unchecked ==
    /\ pc = "connectionlist_end"
    /\ iteration' = None
    /\ IF right_brace THEN Advance ELSE Stay
    /\ Return
    /\ UNCHANGED << skip, lists, circuit_vars, device_locals, con_locals,
                    name_vars, right_brace, check_symbol, entered, fixed >>

\* __connectionlist's end as it would be if it reported the unconnected
\* inputs at the current symbol.
connectionlist_end_at_symbol ==
    /\ pc = "connectionlist_end"
    /\ iteration' = None
    /\ IF right_brace THEN Advance ELSE Stay
    /\ IF ~error_ /\ check_network(devices) # {}
       THEN error("unconnected inputs", NoString, symbol,
                  Head(stack), Tail(stack))
       ELSE Return
    /\ UNCHANGED << skip, lists, circuit_vars, device_locals, con_locals,
                    name_vars, right_brace, check_symbol, entered, fixed >>

\* __connectionlist: the unconnected inputs, reported at the CONNECT symbol
\* if nothing was reported before; then past the right brace.
connectionlist_end ==
    /\ pc = "connectionlist_end"
    /\ iteration' = None
    /\ IF right_brace THEN Advance ELSE Stay
    /\ IF ~error_ /\ check_network(devices) # {}
       THEN error("unconnected inputs", NoString, connect_Symbol,
                  Head(stack), Tail(stack))
       ELSE Return
    /\ UNCHANGED << skip, lists, circuit_vars, device_locals, con_locals,
                    name_vars, right_brace, check_symbol, entered, fixed >>

\* ------------------------------------------------------------------------
\* __con, __point, __pinname
\* ------------------------------------------------------------------------

\* Network.error_message
error_message ==
    [ e \in { "INPUT_CONNECTED", "INPUT_TO_INPUT", "OUTPUT_TO_OUTPUT",
              "DEVICE_ABSENT_1", "DEVICE_ABSENT_2", "PORT_ABSENT_1",
              "PORT_ABSENT_2" } |->
        CASE e = "INPUT_CONNECTED" -> "Input already connected"
          [] e = "INPUT_TO_INPUT" -> "Input connected to input"
          [] e = "OUTPUT_TO_OUTPUT" -> "Output connected to output"
          [] e \in {"DEVICE_ABSENT_1", "DEVICE_ABSENT_2"}
               -> "Specified device does not exist"
          [] OTHER -> "Specified port does not exist" ]

\* __con: the source point.
con ==
    /\ pc = "con"
    /\ cur_device_name_list' = << >>
    /\ cur_pin_name_list' = << >>
    /\ Stay
    /\ Continue("point", << "con_source" >> \o stack)
    /\ UNCHANGED << skip, circuit_vars, device_locals, con_locals, name_vars,
                    list_vars, fixed >>

\* __point: the device name.
point ==
    /\ pc = "point"
    /\ type_' = "devicename"
    /\ Stay
    /\ Continue("name", << "point_named" >> \o stack)
    /\ UNCHANGED << skip, lists, circuit_vars, device_locals, con_locals,
                    returned, list_vars, fixed >>

\* __point: after the device name, '.' and a pin name, or a pin symbol
\* without spelling for a point that names no pin.
point_named ==
    /\ pc = "point_named"
    /\ IF Truthy(returned)
       THEN IF symbol.type = "DOT"
            THEN /\ Advance
                 /\ type_' = "pinname"
                 /\ Continue("name", stack)
                 /\ UNCHANGED << returned, lists >>
            ELSE /\ cur_pin_name_list' = Append(cur_pin_name_list, EmptySymbol)
                 /\ returned' = "True"
                 /\ Stay
                 /\ Return
                 /\ UNCHANGED << type_, cur_device_name_list >>
       ELSE /\ returned' = "False"
            /\ Stay
            /\ Return
            /\ UNCHANGED << type_, lists >>
    /\ UNCHANGED << skip, circuit_vars, device_locals, con_locals, list_vars,
                    fixed >>

\* __con: the source is remembered, then '>' and the first destination.
con_source ==
    /\ pc = "con_source"
    /\ IF Truthy(returned)
       THEN /\ IF ~error_
               THEN /\ out_device_sym' = cur_device_name_list[1]
                    /\ out_pin_sym' = cur_pin_name_list[1]
                    /\ cur_device_name_list' = << >>
                    /\ cur_pin_name_list' = << >>
               ELSE UNCHANGED << out_device_sym, out_pin_sym, lists >>
            /\ IF symbol.type = "ARROW"
               THEN /\ cur_arrow' = symbol
                    /\ Advance
                    /\ Continue("point", << "con_points" >> \o stack)
               ELSE /\ Stay
                    /\ error("Expected '>'", ";", symbol, "con_make", stack)
                    /\ UNCHANGED cur_arrow
       ELSE /\ Stay
            /\ Continue("con_make", stack)
            /\ UNCHANGED << out_device_sym, out_pin_sym, lists, cur_arrow >>
    /\ UNCHANGED << skip, circuit_vars, device_locals, connect_Symbol, con_i,
                    name_vars, list_vars, fixed >>

\* __con: further destinations after commas, then what follows the list.
con_points ==
    /\ pc = "con_points"
    /\ IF symbol.type = "COMMA" /\ symbol.type # "EOF"
       THEN /\ Advance
            /\ Continue("point", << "con_points" >> \o stack)
            /\ UNCHANGED skip
       ELSE /\ Stay
            /\ IF symbol.type # "SEMICOLON"
               THEN IF symbol.type = "BRACE_RIGHT"
                    THEN /\ skip' = TRUE
                         /\ error("Expected ';'", NoString, symbol, "con_make", stack)
                    ELSE /\ error("Expected '.' or ',' or ';'", ";", symbol,
                                  "con_make", stack)
                         /\ UNCHANGED skip
               ELSE /\ Continue("con_make", stack)
                    /\ UNCHANGED skip
    /\ UNCHANGED << lists, circuit_vars, device_locals, con_locals, name_vars,
                    list_vars, fixed >>

\* The symbol handed to __error as it would be if the errors that have no
\* branch of their own were reported at the destination.
error_symbol_at_destination(e, i) ==
    CASE e \in {"INPUT_CONNECTED", "PORT_ABSENT_2"} -> cur_pin_name_list[i]
      [] e = "DEVICE_ABSENT_2" -> cur_device_name_list[i]
      [] e = "DEVICE_ABSENT_1" -> out_device_sym
      [] e = "PORT_ABSENT_1" -> out_pin_sym
      [] OTHER -> cur_device_name_list[i]

\* The symbol handed to __error as it would be if a connected input were
\* reported at the device of the destination.
error_symbol_at_device(e, i) ==
    CASE e = "PORT_ABSENT_2" -> cur_pin_name_list[i]
      [] e \in {"INPUT_CONNECTED", "DEVICE_ABSENT_2"} -> cur_device_name_list[i]
      [] e = "DEVICE_ABSENT_1" -> out_device_sym
      [] e = "PORT_ABSENT_1" -> out_pin_sym
      [] OTHER -> cur_arrow

\* The symbol __con hands to __error for an error code of make_connection.
error_symbol(e, i) ==
    CASE e \in {"INPUT_CONNECTED", "PORT_ABSENT_2"} -> cur_pin_name_list[i]
      [] e = "DEVICE_ABSENT_2" -> cur_device_name_list[i]
      [] e = "DEVICE_ABSENT_1" -> out_device_sym
      [] e = "PORT_ABSENT_1" -> out_pin_sym
      [] OTHER -> cur_arrow

\* __con: if no error has been reported, one iteration of the loop over the
\* destinations (counted from 1 here): make_connection, and the loop is left
\* at the first error.
con_make ==
    /\ pc = "con_make"
    /\ Stay
    /\ IF ~error_ /\ con_i <= Len(cur_device_name_list)
       THEN LET out_device_id == query(out_device_sym.string)
                out_pin_id == query(out_pin_sym.string)
                in_dev_id == query(cur_device_name_list[con_i].string)
                in_pin_id == query(cur_pin_name_list[con_i].string)
                e == connection_error(devices, out_device_id, out_pin_id,
                                      in_dev_id, in_pin_id)
            IN  /\ devices' = make_connection(devices, out_device_id,
                                              out_pin_id, in_dev_id, in_pin_id)
                /\ IF e # "NO_ERROR"
                   THEN /\ error(error_message[e], NoString,
                                 error_symbol(e, con_i), "con_end", stack)
                        /\ con_i' = 1
                   ELSE /\ Continue("con_make", stack)
                        /\ con_i' = con_i + 1
       ELSE /\ Continue("con_end", stack)
            /\ con_i' = 1
            /\ UNCHANGED devices
    /\ UNCHANGED << skip, lists, monitors, redeclared, device_locals,
                    connect_Symbol, out_device_sym, out_pin_sym, cur_arrow,
                    name_vars, list_vars, fixed >>

\* __con: the semicolon, unless a right brace was reported in its place.
con_end ==
    /\ pc = "con_end"
    /\ skip' = FALSE
    /\ IF ~skip
       THEN IF symbol.type = "SEMICOLON"
            THEN /\ Advance
                 /\ Return
            ELSE /\ Stay
                 /\ error("Expected ';'", NoString, symbol,
                          Head(stack), Tail(stack))
       ELSE /\ Stay
            /\ Return
    /\ UNCHANGED << lists, circuit_vars, device_locals, con_locals, name_vars,
                    list_vars, fixed >>

\* ------------------------------------------------------------------------
\* __monitorlist, __monitor
\* ------------------------------------------------------------------------

\* __monitorlist: the MONITOR keyword, unless __connectionlist has read it.
monitorlist ==
    /\ pc = "monitorlist"
    /\ right_brace' = TRUE
    /\ entered' = Entry
    /\ IF ~skip
       THEN IF IsKeyword(symbol, MONITOR_ID)
            THEN /\ Advance
                 /\ Continue("monitorlist_brace", stack)
            ELSE /\ Stay
                 /\ error("Expected 'MONITOR'", "{", symbol,
                          "monitorlist_brace", stack)
       ELSE /\ Stay
            /\ Continue("monitorlist_brace", stack)
    /\ UNCHANGED << skip, lists, circuit_vars, device_locals, con_locals,
                    name_vars, check_symbol, iteration, fixed >>

\* __monitorlist: the left brace, then the first __monitor.
monitorlist_brace ==
    /\ pc = "monitorlist_brace"
    /\ skip' = FALSE
    /\ IF symbol.type = "BRACE_LEFT"
       THEN /\ Advance
            /\ Continue("monitor", << "monitorlist_loop" >> \o stack)
       ELSE /\ Stay
            /\ error("Expected '{'", NoString, symbol, Head(stack), Tail(stack))
    /\ UNCHANGED << lists, circuit_vars, device_locals, con_locals, name_vars,
                    list_vars, fixed >>

\* __monitorlist: the head of the while loop; END is a missing right brace.
monitorlist_loop ==
    /\ pc = "monitorlist_loop"
    /\ Stay
    /\ IF InList
       THEN /\ iteration' = symbol.position
            /\ IF symbol.id = END_ID
               THEN /\ error("Expected '}'", NoString, symbol,
                             "monitorlist_end", stack)
                    /\ right_brace' = FALSE
               ELSE /\ Continue("monitor", << "monitorlist_loop" >> \o stack)
                    /\ UNCHANGED right_brace
       ELSE /\ iteration' = None
            /\ Continue("monitorlist_end", stack)
            /\ UNCHANGED right_brace
    /\ UNCHANGED << skip, lists, circuit_vars, device_locals, con_locals,
                    name_vars, check_symbol, entered, fixed >>

\* __monitorlist: past the right brace.
monitorlist_end ==
    /\ pc = "monitorlist_end"
    /\ iteration' = None
    /\ IF right_brace THEN Advance ELSE Stay
    /\ Return
    /\ UNCHANGED << skip, lists, circuit_vars, device_locals, con_locals,
                    name_vars, right_brace, check_symbol, entered, fixed >>

\* Monitors.error_message
monitor_message ==
    [ e \in { "NOT_OUTPUT", "MONITOR_PRESENT", "DEVICE_ABSENT" } |->
        CASE e = "NOT_OUTPUT" -> "Specified port is not an output"
          [] e = "MONITOR_PRESENT" -> "Already monitoring this output"
          [] OTHER -> "Specified device does not exist" ]

\* __monitor: the monitored point.
monitor ==
    /\ pc = "monitor"
    /\ cur_device_name_list' = << >>
    /\ cur_pin_name_list' = << >>
    /\ Stay
    /\ Continue("point", << "monitor_make" >> \o stack)
    /\ UNCHANGED << skip, circuit_vars, device_locals, con_locals, name_vars,
                    list_vars, fixed >>

\* __monitor: the monitor is made if no error has been reported.
monitor_make ==
    /\ pc = "monitor_make"
    /\ Stay
    /\ IF ~error_
       THEN LET device_id == query(cur_device_name_list[1].string)
                output_id == query(cur_pin_name_list[1].string)
                e == monitor_error(devices, monitors, device_id, output_id)
            IN  /\ monitors' = make_monitor(devices, monitors, device_id, output_id)
                /\ IF e # "NO_ERROR"
                   THEN error(monitor_message[e], NoString, symbol,
                              "monitor_end", stack)
                   ELSE Continue("monitor_end", stack)
       ELSE /\ Continue("monitor_end", stack)
            /\ UNCHANGED monitors
    /\ UNCHANGED << skip, lists, devices, redeclared, device_locals, con_locals,
                    name_vars, list_vars, fixed >>

\* __monitor: the semicolon.
monitor_end ==
    /\ pc = "monitor_end"
    /\ IF symbol.type = "SEMICOLON"
       THEN /\ Advance
            /\ Return
       ELSE /\ Stay
            /\ error("Expected ';'", NoString, symbol, Head(stack), Tail(stack))
    /\ UNCHANGED << skip, lists, circuit_vars, device_locals, con_locals,
                    name_vars, list_vars, fixed >>

\* ------------------------------------------------------------------------
\* The Scanner, character by character
\* ------------------------------------------------------------------------

\* Longest file of characters scanned.
MaxText == 5

letters == {"A"}
digits == << "0", "1", "2", "3", "4", "5", "6", "7", "8", "9" >>
spaces == {" ", "\n"}

\* The characters the scanned files are made of: a backslash, a letter, two
\* digits, a space and a punctuation mark.
Chars == {"\\", "A", "1", "0", " ", ";"}

\* Every text of at most n characters.
Texts(n) == UNION { [1..m -> Chars] : m \in 0..n }

isalpha(c) == c \in letters
isdigit(c) == c \in Range(digits)
isalnum(c) == isalpha(c) \/ isdigit(c)
isspace(c) == c \in spaces

\* int(c) of a digit, and str(n) of a number, as characters.
digit_value(c) == (CHOOSE d \in 1..10 : digits[d] = c) - 1

RECURSIVE str(_)
str(n) ==
    IF n < 10 THEN << digits[n + 1] >>
    ELSE str(n \div 10) \o << digits[(n % 10) + 1] >>

\* The names that are keywords, as characters.
keywords_chars ==
    { << "C", "I", "R", "C", "U", "I", "T" >>,
      << "D", "E", "V", "I", "C", "E", "S" >>,
      << "C", "O", "N", "N", "E", "C", "T" >>,
      << "M", "O", "N", "I", "T", "O", "R" >>,
      << "E", "N", "D" >>, << "C", "L", "O", "C", "K" >>,
      << "S", "W", "I", "T", "C", "H" >>, << "A", "N", "D" >>,
      << "N", "A", "N", "D" >>, << "O", "R" >>, << "N", "O", "R" >>,
      << "X", "O", "R" >>, << "N", "O", "T" >>,
      << "D", "T", "Y", "P", "E" >> }

\* Scanner.__init__: the file is open and its first character read.
opened(f) ==
    [ tell |-> IF Len(f) > 0 THEN 1 ELSE 0,
      file_position |-> 0,
      current_character |-> IF Len(f) > 0 THEN f[1] ELSE "",
      comment |-> FALSE ]

\* Scanner.advance: file.read(1) gives "" at the end of the file and leaves
\* the file where it is; file_position is incremented all the same.
advance(f, sc) ==
    [ sc EXCEPT
        !.current_character = IF sc.tell < Len(f) THEN f[sc.tell + 1] ELSE "",
        !.tell = IF sc.tell < Len(f) THEN sc.tell + 1 ELSE sc.tell,
        !.file_position = sc.file_position + 1 ]

\* Scanner.backwards
backwards(f, sc) ==
    IF sc.current_character = ""
    THEN advance(f, [sc EXCEPT !.tell = sc.tell - 1,
                               !.file_position = sc.file_position - 1])
    ELSE advance(f, [sc EXCEPT !.tell = sc.tell - 2,
                               !.file_position = sc.file_position - 2])

\* Scanner.skip_spaces
RECURSIVE skip_spaces(_, _)
skip_spaces(f, sc) ==
    IF isspace(sc.current_character) THEN skip_spaces(f, advance(f, sc)) ELSE sc

\* self.comment = self.check_comment()
check_comment(f, sc) ==
    LET read == advance(f, sc)
    IN  [ read EXCEPT !.comment = IF read.current_character = "\\"
                                  THEN ~sc.comment ELSE sc.comment ]

\* The while loop of get_symbol over a comment, with its else clause.
RECURSIVE skip_comment(_, _)
skip_comment(f, sc) ==
    IF sc.comment
    THEN IF sc.current_character = ""
         THEN sc
         ELSE skip_comment(f, advance(f, IF sc.current_character = "\\"
                                         THEN check_comment(f, sc) ELSE sc))
    ELSE skip_spaces(f, sc)

\* Scanner.get_name: the name, and the scanner after it.
RECURSIVE get_name(_, _, _)
get_name(f, sc, name_string) ==
    IF isalnum(sc.current_character)
    THEN get_name(f, advance(f, sc), Append(name_string, sc.current_character))
    ELSE [string |-> name_string, scanner |-> sc]

\* Scanner.get_number as it would be without its loop over the digits that
\* follow the first.
get_number_of_one_digit(f, sc, number) == [id |-> number, scanner |-> sc]

\* Scanner.get_number: the number, and the scanner after it.
RECURSIVE get_number(_, _, _)
get_number(f, sc, number) ==
    IF isdigit(sc.current_character)
    THEN get_number(f, advance(f, sc),
                    number * 10 + digit_value(sc.current_character))
    ELSE [id |-> number, scanner |-> sc]

\* The value of scanned before get_symbol has been called.
NotScanned == [type |-> "None", string |-> << >>, position |-> None]

\* Scanner.get_symbol: the symbol returned and the scanner after the call.
scan(f, sc) ==
    LET spaced == skip_spaces(f, sc)
        checked == check_comment(f, spaced)
        at == IF spaced.current_character = "\\"
              THEN skip_comment(f, IF ~checked.comment
                                   THEN backwards(f, checked) ELSE checked)
              ELSE spaced
        c == at.current_character
        position == at.file_position
    IN  IF isalpha(c)
        THEN LET got == get_name(f, advance(f, at), << c >>)
             IN  [ symbol |->
                     [ type |-> IF got.string \in keywords_chars
                                THEN "KEYWORD" ELSE "NAME",
                       string |-> got.string, position |-> position ],
                   scanner |-> got.scanner ]
        ELSE IF isdigit(c)
        THEN IF digit_value(c) = 0
             THEN [ symbol |-> [type |-> "ZERO", id |-> 0, string |-> str(0),
                                position |-> position],
                    scanner |-> advance(f, at) ]
             ELSE LET got == get_number(f, advance(f, at), digit_value(c))
                  IN  [ symbol |-> [type |-> "NUMBER", id |-> got.id,
                                    string |-> str(got.id),
                                    position |-> position],
                        scanner |-> got.scanner ]
        ELSE IF c \in DOMAIN punctuation
        THEN [ symbol |-> [type |-> punctuation[c], string |-> << c >>,
                           position |-> position],
               scanner |-> advance(f, at) ]
        ELSE IF c = ""
        THEN [ symbol |-> [type |-> "EOF", string |-> << >>,
                           position |-> position],
               scanner |-> advance(f, at) ]
        ELSE [ symbol |-> [type |-> "INVALID_CHARACTER", string |-> << c >>,
                           position |-> position],
               scanner |-> advance(f, at) ]

\* self.max_error_line_length
max_error_line_length == 79

\* The lengths of the lines of f from character i on, as they would be
\* counted without their line breaks.
RECURSIVE line_lengths_without_breaks(_, _)
line_lengths_without_breaks(f, i) ==
    IF i > Len(f) THEN << >>
    ELSE IF \E e \in i..Len(f) : f[e] = "\n"
    THEN LET e == CHOOSE e \in i..Len(f) :
                      f[e] = "\n" /\ \A d \in i..(e - 1) : f[d] # "\n"
         IN  << e - i >> \o line_lengths_without_breaks(f, e + 1)
    ELSE << Len(f) - i + 1 >>

\* self.line_lengths = [len(line) for line in self.file]: the lengths of the
\* lines of f from character i on, each with its line break.
RECURSIVE line_lengths(_, _)
line_lengths(f, i) ==
    IF i > Len(f) THEN << >>
    ELSE IF \E e \in i..Len(f) : f[e] = "\n"
    THEN LET e == CHOOSE e \in i..Len(f) :
                      f[e] = "\n" /\ \A d \in i..(e - 1) : f[d] # "\n"
         IN  << e - i + 1 >> \o line_lengths(f, e + 1)
    ELSE << Len(f) - i + 1 >>

\* self.file.read().split("\n"): the lines of f from character i on, without
\* their line breaks; a line break at the end is followed by an empty line.
RECURSIVE split(_, _)
split(f, i) ==
    IF \E e \in i..Len(f) : f[e] = "\n"
    THEN LET e == CHOOSE e \in i..Len(f) :
                      f[e] = "\n" /\ \A d \in i..(e - 1) : f[d] # "\n"
         IN  << SubSeq(f, i, e - 1) >> \o split(f, e + 1)
    ELSE << SubSeq(f, i, Len(f)) >>

\* sum(lengths[:i])
RECURSIVE sum(_, _)
sum(lengths, i) == IF i = 0 THEN 0 ELSE sum(lengths, i - 1) + lengths[i]

\* The shortening of print_error as it would be if it cut the line one
\* character further to the left before the marker.
shorten_one_early(line_text, position) ==
    LET half == (max_error_line_length + 1) \div 2
        before == IF position > half - 5
                  THEN [ line_text |->
                           << "[", ".", ".", ".", "]" >>
                             \o SubSeq(line_text, position - half + 5 + 1,
                                       Len(line_text)),
                         position |-> (max_error_line_length - 1) \div 2 ]
                  ELSE [line_text |-> line_text, position |-> position]
        kept == before.position + max_error_line_length \div 2 - 4
        after == IF Len(before.line_text) - before.position > half
                 THEN [ before EXCEPT !.line_text =
                          SubSeq(before.line_text, 1,
                                 IF kept < Len(before.line_text)
                                 THEN kept ELSE Len(before.line_text))
                            \o << "[", ".", ".", ".", "]" >> ]
                 ELSE before
    IN  IF Len(line_text) > max_error_line_length THEN after
        ELSE [line_text |-> line_text, position |-> position]

\* The line print_error prints and the column of its marker, shortened if
\* the line is longer than max_error_line_length.
shorten(line_text, position) ==
    LET half == (max_error_line_length + 1) \div 2
        before == IF position > half - 5
                  THEN [ line_text |->
                           << "[", ".", ".", ".", "]" >>
                             \o SubSeq(line_text, position - half + 6 + 1,
                                       Len(line_text)),
                         position |-> (max_error_line_length - 1) \div 2 ]
                  ELSE [line_text |-> line_text, position |-> position]
        kept == before.position + max_error_line_length \div 2 - 4
        after == IF Len(before.line_text) - before.position > half
                 THEN [ before EXCEPT !.line_text =
                          SubSeq(before.line_text, 1,
                                 IF kept < Len(before.line_text)
                                 THEN kept ELSE Len(before.line_text))
                            \o << "[", ".", ".", ".", "]" >> ]
                 ELSE before
    IN  IF Len(line_text) > max_error_line_length THEN after
        ELSE [line_text |-> line_text, position |-> position]

\* Nothing printed.
NoOutput == [line |-> None, line_text |-> << >>, position |-> None]

\* Scanner.print_error: the line number, the line and the column of the
\* marker of the output for the symbol sym.
print_error(f, sym) ==
    LET lengths == line_lengths(f, 1)
        sol_pos == [i \in 1..Len(lengths) |-> sum(lengths, i - 1)]
        sol_pos_rel_marker == [i \in 1..Len(lengths) |-> sol_pos[i] - sym.position]
        not_after == { r \in Range(sol_pos_rel_marker) : r <= 0 }
        position == - (CHOOSE m \in not_after : \A n \in not_after : n <= m)
        line == CHOOSE i \in 1..Len(lengths) :
                    /\ sol_pos_rel_marker[i] = - position
                    /\ \A j \in 1..(i - 1) : sol_pos_rel_marker[j] # - position
        shortened == shorten(split(f, 1)[line], position)
    IN  IF Len(lengths) = 0
        THEN [line |-> 1, line_text |-> << >>, position |-> 0]
        ELSE [ line |-> line, line_text |-> shortened.line_text,
               position |-> shortened.position ]

\* self.file.seek(p, 0)
seek(sc, p) == [sc EXCEPT !.tell = p]

\* print_error as it would leave the file without the last seek: at the end,
\* where read() has taken it.
print_error_not_seeking_back(f, sc) ==
    IF Len(line_lengths(f, 1)) = 0 THEN sc ELSE seek(seek(sc, 0), Len(f))

\* Scanner.print_error: what it does to the Scanner. It notes file.tell(),
\* goes to the start of a file that has lines and reads it to the end, and
\* seeks the position it noted.
print_error_seeking(f, sc) ==
    LET current_position == sc.tell
        read == IF Len(line_lengths(f, 1)) = 0
                THEN sc
                ELSE seek(seek(sc, 0), Len(f))
    IN  seek(read, current_position)

\* How many calls of get_symbol are followed after the one that reads past
\* the end of the file.
MaxAfterEOF == 2

\* A call of Scanner.get_symbol; a caller may go on calling it after the end
\* of the file has been returned.
Scanner_get_symbol ==
    /\ scanned.type = "EOF" =>
         scanner.file_position <= Len(file) + MaxAfterEOF
    /\ LET got == scan(file, scanner)
       IN  /\ scanned' = got.symbol
           /\ scanner' = IF got.symbol.type = "EOF" /\ got.scanner.comment
                         THEN print_error_seeking(file, got.scanner)
                         ELSE got.scanner
           /\ output' = IF got.symbol.type = "EOF" /\ got.scanner.comment
                        THEN print_error(file, got.symbol)
                        ELSE NoOutput
    /\ UNCHANGED << file, parser_vars, driver_vars, table_vars, swap_vars >>

\* A call of Scanner.print_error for the symbol get_symbol returned last; the
\* file is left where it was.
Scanner_print_error ==
    /\ scanned.type # "None"
    /\ output' = print_error(file, scanned)
    /\ scanner' = print_error_seeking(file, scanner)
    /\ UNCHANGED << file, scanned, parser_vars, driver_vars, table_vars, swap_vars >>

\* ------------------------------------------------------------------------
\* The name table
\* ------------------------------------------------------------------------

\* The two MyNames classes of the preliminary exercises.
Versions == {"sai34", "rjh254"}

\* The strings looked up, as sequences of characters, and the one that is
\* only asked for.
Strings == { << "A" >>, << "B" >>, << "E" >>, << "1" >> }
Unknown == << "R" >>

\* The arguments get_string is called with: integers, floats (counted in
\* tenths) and strings; the integers go from MaxBelow under zero to past
\* the IDs a table can issue.
MaxBelow == 2
int_(n) == [type |-> "int", tenths |-> 10 * n, string |-> << >>]
float_(t) == [type |-> "float", tenths |-> t, string |-> << >>]
str_(chars) == [type |-> "str", tenths |-> 0, string |-> chars]

Arguments ==
    { int_(n) : n \in (- MaxBelow)..(Cardinality(Strings) + 1) }
      \cup { float_(t) : t \in {-14, -10, 0, 10, 14} }
      \cup { str_(chars) : chars \in { << >>, << "1" >>, << "0", "2" >>,
                                       << "-", "1" >>, << "1", ".", "4" >>,
                                       << "h", "i" >> } }

\* What a call gives: a string, None, or an exception.
Returns(chars) == [kind |-> "return", value |-> chars]
ReturnsNone == [kind |-> "None", value |-> << >>]
Raises(exception) == [kind |-> exception, value |-> << >>]

\* self.names_list.index(name_string)
index(list, name_string) ==
    (CHOOSE i \in 1..Len(list) :
        list[i] = name_string /\ \A j \in 1..(i - 1) : list[j] # name_string) - 1

\* MyNames.lookup as it would be if it put a new name first in the list.
lookup_inserting_first(list, name_string) ==
    IF name_string \in Range(list)
    THEN [names_list |-> list, id |-> index(list, name_string)]
    ELSE [names_list |-> << name_string >> \o list, id |-> 0]

\* MyNames.lookup as it would be if it returned the length of the list for
\* a new name.
lookup_returning_length(list, name_string) ==
    IF name_string \in Range(list)
    THEN [names_list |-> list, id |-> index(list, name_string)]
    ELSE [names_list |-> Append(list, name_string), id |-> Len(list) + 1]

\* MyNames.lookup of prelim sai34: the list after the call and the ID
\* returned.
lookup_sai34(list, name_string) ==
    LET appended == IF name_string \notin Range(list)
                    THEN Append(list, name_string) ELSE list
    IN  [names_list |-> appended, id |-> index(appended, name_string)]

\* MyNames.lookup of Prelim rjh254
lookup_rjh254(list, name_string) ==
    IF name_string \in Range(list)
    THEN [names_list |-> list, id |-> index(list, name_string)]
    ELSE [names_list |-> Append(list, name_string), id |-> Len(list)]

\* MyNames.get_string of prelim sai34
get_string_sai34(list, name_id) ==
    IF name_id.type # "int" THEN Raises("TypeError")
    ELSE IF name_id.tenths \div 10 < 0 THEN Raises("ValueError")
    ELSE IF name_id.tenths \div 10 < Len(list)
    THEN Returns(list[name_id.tenths \div 10 + 1])
    ELSE ReturnsNone

\* str.isnumeric, and float of a numeric string, in tenths.
isnumeric(chars) == chars # << >> /\ \A i \in 1..Len(chars) : isdigit(chars[i])

RECURSIVE float(_)
float(chars) ==
    IF chars = << >> THEN 0
    ELSE 10 * float(SubSeq(chars, 1, Len(chars) - 1))
           + 10 * digit_value(chars[Len(chars)])

\* MyNames.get_string of Prelim rjh254
get_string_rjh254(list, name_id) ==
    IF name_id.type = "str" /\ ~ isnumeric(name_id.string)
    THEN Raises("TypeError")
    ELSE LET tenths == IF name_id.type = "str" THEN float(name_id.string)
                       ELSE name_id.tenths
         IN  IF tenths % 10 # 0 THEN Raises("TypeError")
             ELSE IF tenths \div 10 < 0 THEN Raises("ValueError")
             ELSE IF tenths \div 10 >= Len(list) THEN ReturnsNone
             ELSE Returns(list[tenths \div 10 + 1])

\* The methods of the instance in use.
lookup_in(list, name_string) ==
    IF version = "sai34" THEN lookup_sai34(list, name_string)
    ELSE lookup_rjh254(list, name_string)

get_string(list, name_id) ==
    IF version = "sai34" THEN get_string_sai34(list, name_id)
    ELSE get_string_rjh254(list, name_id)

\* Names.query: the ID of a string of the table, None for any other; it
\* never inserts.
query_in(list, name_string) ==
    IF name_string \in Range(list) THEN index(list, name_string) ELSE None

\* No table in use.
NoTable ==
    /\ names_table = << >>
    /\ version = NoString
    /\ call = [op |-> NoString]
    /\ first_lookups = << >>

\* A call of lookup
MyNames_lookup ==
    /\ \E name_string \in Strings :
          LET looked == lookup_in(names_table, name_string)
          IN  /\ names_table' = looked.names_list
              /\ call' = [op |-> "lookup", arg |-> str_(name_string),
                          id |-> looked.id, result |-> ReturnsNone]
              /\ first_lookups' = IF name_string \in Range(first_lookups)
                                  THEN first_lookups
                                  ELSE Append(first_lookups, name_string)
    /\ UNCHANGED version
    /\ UNCHANGED << parser_vars, scan_vars, driver_vars, swap_vars >>

\* A call of get_string
MyNames_get_string ==
    /\ \E name_id \in Arguments :
          call' = [op |-> "get_string", arg |-> name_id, id |-> None,
                   result |-> get_string(names_table, name_id)]
    /\ UNCHANGED << names_table, version, first_lookups >>
    /\ UNCHANGED << parser_vars, scan_vars, driver_vars, swap_vars >>

\* A call of query
Names_query ==
    /\ \E name_string \in Strings \cup {Unknown} :
          call' = [op |-> "query", arg |-> str_(name_string),
                   id |-> query_in(names_table, name_string),
                   result |-> ReturnsNone]
    /\ UNCHANGED << names_table, version, first_lookups >>
    /\ UNCHANGED << parser_vars, scan_vars, driver_vars, swap_vars >>

\* ------------------------------------------------------------------------
\* The driver: the Gui's run, restart, add and remove handlers
\* ------------------------------------------------------------------------

\* The signals that can be monitored, the cycles one run can ask for, and the
\* length a trace is followed to.
Signals == {"G1", "G2"}
MaxRun == 2
MaxTrace == 4

\* The levels record_signals appends for a signal of the network.
Levels == {"LOW", "HIGH"}

\* n entries of BLANK.
blanks(n) == [i \in 1..n |-> "BLANK"]

\* The longest trace kept.
Longest ==
    IF DOMAIN monitors_dictionary = {} THEN 0
    ELSE CHOOSE n \in 0..MaxTrace :
             /\ \E m \in DOMAIN monitors_dictionary :
                    Len(monitors_dictionary[m]) = n
             /\ \A m \in DOMAIN monitors_dictionary :
                    Len(monitors_dictionary[m]) <= n

\* The driver before any event, for a network without monitors.
NoDriver ==
    /\ cycles_completed = 0
    /\ monitors_dictionary = << >>
    /\ gui_pc = "idle"
    /\ cycles = 0
    /\ left = 0
    /\ run_log = << >>
    /\ records = 0
    /\ created = << >>
    /\ oscillated = FALSE

\* Gui.on_run_button, up to its call of run_network.
on_run_button ==
    /\ gui_pc = "idle"
    /\ \E n \in 1..MaxRun :
          /\ Longest + n <= MaxTrace
          /\ cycles_completed + n <= MaxTrace
          /\ cycles' = n
          /\ left' = n
    /\ gui_pc' = "run_network"
    /\ run_log' = << >>
    /\ records' = 0
    /\ UNCHANGED << cycles_completed, monitors_dictionary, created, oscillated >>
    /\ UNCHANGED << parser_vars, scan_vars, table_vars, swap_vars >>

\* Monitors.record_signals: every trace gets the level of its signal.
record_signals(levels) ==
    [m \in DOMAIN monitors_dictionary |->
        Append(monitors_dictionary[m], levels[m])]

\* One iteration of the loop of run_network as it would be if a false
\* result of execute_network did not end the loop.
run_network_cycle_through ==
    /\ gui_pc = "run_network"
    /\ left > 0
    /\ \E ok \in BOOLEAN :
          /\ run_log' = Append(run_log, ok)
          /\ IF ok
             THEN /\ \E levels \in [DOMAIN monitors_dictionary -> Levels] :
                       monitors_dictionary' = record_signals(levels)
                  /\ records' = records + 1
                  /\ UNCHANGED oscillated
             ELSE /\ oscillated' = TRUE
                  /\ UNCHANGED << monitors_dictionary, records >>
    /\ left' = left - 1
    /\ UNCHANGED << gui_pc, cycles, cycles_completed, created >>
    /\ UNCHANGED << parser_vars, scan_vars, table_vars, swap_vars >>

\* One iteration of the loop of run_network: execute_network succeeds, and
\* the signals are recorded, or it reports oscillation, and run_network
\* returns False to on_run_button, which leaves cycles_completed as it was.
run_network_cycle ==
    /\ gui_pc = "run_network"
    /\ left > 0
    /\ \E ok \in BOOLEAN :
          /\ run_log' = Append(run_log, ok)
          /\ IF ok
             THEN /\ \E levels \in [DOMAIN monitors_dictionary -> Levels] :
                       monitors_dictionary' = record_signals(levels)
                  /\ records' = records + 1
                  /\ left' = left - 1
                  /\ UNCHANGED << gui_pc, oscillated >>
             ELSE /\ gui_pc' = "idle"
                  /\ oscillated' = TRUE
                  /\ UNCHANGED << monitors_dictionary, records, left >>
    /\ UNCHANGED << cycles, cycles_completed, created >>
    /\ UNCHANGED << parser_vars, scan_vars, table_vars, swap_vars >>

\* The loop of run_network is over: it returns True and on_run_button adds
\* the cycles to cycles_completed.
run_network_return ==
    /\ gui_pc = "run_network"
    /\ left = 0
    /\ cycles_completed' = cycles_completed + cycles
    /\ gui_pc' = "idle"
    /\ UNCHANGED << monitors_dictionary, cycles, left, run_log, records,
                    created, oscillated >>
    /\ UNCHANGED << parser_vars, scan_vars, table_vars, swap_vars >>

\* Gui.on_restart_button: reset_monitors empties every trace, and
\* run_network(0) makes no iteration.
on_restart_button ==
    /\ gui_pc = "idle"
    /\ cycles_completed' = 0
    /\ monitors_dictionary' = [m \in DOMAIN monitors_dictionary |-> << >>]
    /\ created' = [m \in DOMAIN monitors_dictionary |-> 0]
    /\ cycles' = 0
    /\ left' = 0
    /\ run_log' = << >>
    /\ records' = 0
    /\ UNCHANGED << gui_pc, oscillated >>
    /\ UNCHANGED << parser_vars, scan_vars, table_vars, swap_vars >>

\* Gui.on_add_button for a signal chosen in the add box: make_monitor fills
\* the new trace with BLANK for the cycles_completed it is given, and
\* refuses a signal that is monitored already.
on_add_button ==
    /\ gui_pc = "idle"
    /\ \E m \in Signals :
          IF m \in DOMAIN monitors_dictionary
          THEN UNCHANGED << monitors_dictionary, created >>
          ELSE /\ monitors_dictionary' =
                    [n \in DOMAIN monitors_dictionary \cup {m} |->
                        IF n = m THEN blanks(cycles_completed)
                        ELSE monitors_dictionary[n]]
               /\ created' =
                    [n \in DOMAIN monitors_dictionary \cup {m} |->
                        IF n = m THEN cycles_completed ELSE created[n]]
    /\ UNCHANGED << cycles_completed, gui_pc, cycles, left, run_log, records,
                    oscillated >>
    /\ UNCHANGED << parser_vars, scan_vars, table_vars, swap_vars >>

\* Gui.on_zap_button for a signal chosen in the remove box: remove_monitor
\* drops its trace.
on_zap_button ==
    /\ gui_pc = "idle"
    /\ \E m \in DOMAIN monitors_dictionary :
          /\ monitors_dictionary' =
               [n \in DOMAIN monitors_dictionary \ {m} |-> monitors_dictionary[n]]
          /\ created' = [n \in DOMAIN monitors_dictionary \ {m} |-> created[n]]
    /\ UNCHANGED << cycles_completed, gui_pc, cycles, left, run_log, records,
                    oscillated >>
    /\ UNCHANGED << parser_vars, scan_vars, table_vars, swap_vars >>

\* ------------------------------------------------------------------------
\* The parser as a state machine
\* ------------------------------------------------------------------------

\* Parser.__init__ on a definition file, parse_network about to call
\* __circuit.
ParserInit ==
    /\ symbol = symbol_at(0)
    /\ pos = 1
    /\ scanner_printed = IF comment_at(1) THEN 1 ELSE 0
    /\ error_msg = [blocks |-> << >>, total |-> None]
    /\ check_symbol = EmptySymbol
    /\ error_ = FALSE
    /\ error_count = 0
    /\ skip = FALSE
    /\ cur_attribute = None
    /\ cur_device_name_list = << >>
    /\ cur_pin_name_list = << >>
    /\ cur_arrow = EmptySymbol
    /\ devices = << >>
    /\ monitors = {}
    /\ pc = "circuit"
    /\ stack = << "parse_network" >>
    /\ returned = "None"
    /\ type_ = "devicename"
    /\ stopping_symbol = NoString
    /\ right_brace = TRUE
    /\ valid_device_list = TRUE
    /\ kind = NoString
    /\ connect_Symbol = EmptySymbol
    /\ out_device_sym = EmptySymbol
    /\ out_pin_sym = EmptySymbol
    /\ con_i = 1
    /\ printed = NoPrint
    /\ result = "None"
    /\ raised_at = None
    /\ entered = [position |-> None, errors |-> 0]
    /\ iteration = None
    /\ redeclared = FALSE
    /\ steps = 0

\* ------------------------------------------------------------------------
\* The Gui's replacement of a connection
\* ------------------------------------------------------------------------

\* The network the connections of which are replaced: the inputs of a
\* two-input gate B, and the outputs of two switches A and X and of B. A
\* signal is a device and a pin, the pin of a lone output being none.
SwapInputs == { << "B", "I1" >>, << "B", "I2" >> }
SwapOutputs == { << "A", NoString >>, << "X", NoString >>, << "B", NoString >> }

\* No signal: None in the code.
NoSignal == << NoString, NoString >>

\* wx.NOT_FOUND: no entry of a choice box is selected.
NOT_FOUND == << >>

\* Devices.get_signal_name: "dev", or "dev.pin" for a named pin.
get_signal_name(ids) ==
    IF ids[2] = NoString THEN ids[1] ELSE ids[1] \o "." \o ids[2]

\* Devices.get_signal_ids: the device and the pin a name stands for.
get_signal_ids(text) ==
    CHOOSE ids \in SwapInputs \cup SwapOutputs : get_signal_name(ids) = text

\* Network.get_connected_output
get_connected_output(network, input) == network[input]

\* The error code of Network.replace_connection(input, new, old): it succeeds
\* only if the new source resolves and the old source matches. The names of
\* the two failures are the model's.
replace_error(network, input, new, old) ==
    CASE new \notin SwapOutputs -> "NEW_ABSENT"
      [] new \in SwapOutputs /\ network[input] # old -> "OLD_MISMATCH"
      [] OTHER -> "NO_ERROR"

\* The network after Network.replace_connection.
replace_connection(network, input, new, old) ==
    IF replace_error(network, input, new, old) = "NO_ERROR"
    THEN [network EXCEPT ![input] = new]
    ELSE network

\* Gui.output_names_list
output_names_list == { get_signal_name(o) : o \in SwapOutputs }

\* Gui.get_conn_names: one entry 'output > input' for each input; an entry
\* is modelled as the pair of the two names.
get_conn_names(network) ==
    { << get_signal_name(get_connected_output(network, i)), get_signal_name(i) >> :
        i \in SwapInputs }

\* Gui.get_new_conn_options: an entry for every output but the one the input
\* is connected to.
get_new_conn_options(network, input_name) ==
    LET current_output_name ==
          get_signal_name(get_connected_output(network,
                                               get_signal_ids(input_name)))
    IN  { << output_, input_name >> :
            output_ \in output_names_list \ {current_output_name} }

\* The replace_connection call that undoes as it would be with the sources
\* in the order of the first call.
undo_call_as_first(first, new, old) == [input |-> first, new |-> new, old |-> old]

\* The arguments of the replace_connection call that undoes: the new and the
\* old source exchanged.
undo_call(first, new, old) == [input |-> first, new |-> old, old |-> new]

\* No network being edited.
NoSwap ==
    /\ connections = << >>
    /\ input_for_swap = NoSignal
    /\ output_for_swap = NoSignal
    /\ swap_conn_box = [choices |-> {}, selection |-> NOT_FOUND]
    /\ new_conn_box = [choices |-> {}, selection |-> NOT_FOUND]
    /\ replace_log = << >>
    /\ chosen_for = NoSignal

\* Gui.on_swap_conn: the user selects an entry of the existing-connection
\* box; the new-connection box gets the options for its input, none of them
\* selected. output_for_swap is not assigned.
on_swap_conn ==
    /\ \E entry \in swap_conn_box.choices :
          LET text == entry[2]
          IN  /\ swap_conn_box' = [swap_conn_box EXCEPT !.selection = entry]
              /\ input_for_swap' = get_signal_ids(text)
              /\ new_conn_box' =
                   [ choices |-> get_new_conn_options(connections, text),
                     selection |-> NOT_FOUND ]
    /\ UNCHANGED << connections, output_for_swap, replace_log, chosen_for >>
    /\ UNCHANGED << parser_vars, scan_vars, driver_vars, table_vars >>

\* Gui.on_new_conn: the user selects an entry of the new-connection box.
on_new_conn ==
    /\ \E entry \in new_conn_box.choices :
          LET text == entry[1]
          IN  /\ new_conn_box' = [new_conn_box EXCEPT !.selection = entry]
              /\ output_for_swap' = get_signal_ids(text)
    /\ chosen_for' = input_for_swap
    /\ UNCHANGED << connections, input_for_swap, swap_conn_box, replace_log >>
    /\ UNCHANGED << parser_vars, scan_vars, driver_vars, table_vars >>

\* The end of on_replace_button: the variables and the boxes are reset.
reset_swap(network) ==
    /\ input_for_swap' = NoSignal
    /\ output_for_swap' = NoSignal
    /\ swap_conn_box' = [choices |-> get_conn_names(network),
                         selection |-> NOT_FOUND]
    /\ new_conn_box' = [choices |-> {}, selection |-> NOT_FOUND]
    /\ chosen_for' = NoSignal

\* One replace_connection call, as the history keeps it.
Called(network, c, made_for) ==
    [ input |-> c.input, new |-> c.new, old |-> c.old,
      error |-> replace_error(network, c.input, c.new, c.old),
      before |-> network,
      after |-> replace_connection(network, c.input, c.new, c.old),
      chosen_for |-> made_for ]

\* Gui.on_replace_button, with the user's answer to the dialog that offers
\* to undo. The message of a replacement that succeeded is built from
\* new_conn_box.GetString(GetCurrentSelection()); with nothing selected the
\* index is wx.NOT_FOUND, for which wxWidgets returns an empty string in a
\* build without assertions and wxPython raises in a build with them: the
\* handler then ends after the replacement, before the dialog and the reset.
on_replace_button ==
    /\ connections # << >>
    /\ \E action \in {"ID_OK", "ID_CANCEL"}, asserting \in BOOLEAN :
         IF input_for_swap # NoSignal /\ output_for_swap # NoSignal
         THEN LET first == input_for_swap
                  new == output_for_swap
                  old == get_connected_output(connections, first)
                  replacing == Called(connections,
                                      [input |-> first, new |-> new, old |-> old],
                                      chosen_for)
                  undoing == Called(replacing.after, undo_call(first, new, old),
                                    chosen_for)
              IN  IF replacing.error = "NO_ERROR"
                  THEN IF new_conn_box.selection = NOT_FOUND /\ asserting
                       THEN /\ connections' = replacing.after
                            /\ replace_log' = << replacing >>
                            /\ UNCHANGED << input_for_swap, output_for_swap,
                                            swap_conn_box, new_conn_box,
                                            chosen_for >>
                       ELSE IF action = "ID_CANCEL"
                       THEN /\ connections' = undoing.after
                            /\ replace_log' = << replacing, undoing >>
                            /\ reset_swap(undoing.after)
                       ELSE /\ connections' = replacing.after
                            /\ replace_log' = << replacing >>
                            /\ reset_swap(replacing.after)
                  ELSE /\ connections' = replacing.after
                       /\ replace_log' = << replacing >>
                       /\ reset_swap(replacing.after)
         ELSE /\ replace_log' = << >>
              /\ UNCHANGED connections
              /\ reset_swap(connections)
    /\ UNCHANGED << parser_vars, scan_vars, driver_vars, table_vars >>

\* The parser on a definition file of tokens; no file of characters.
InitOn(files) ==
    /\ source \in files
    /\ ParserInit
    /\ first_run = << >>
    /\ NoSwap
    /\ file = << >>
    /\ scanner = opened(file)
    /\ scanned = NotScanned
    /\ output = NoOutput
    /\ NoDriver
    /\ NoTable

Init == InitOn(Sources(MaxFree))

Next ==
    \/ error_skip
    \/ parse_network
    \/ parse_network_return
    \/ circuit
    \/ circuit_brace
    \/ circuit_end
    \/ devicelist
    \/ devicelist_brace
    \/ devicelist_loop
    \/ devicelist_check
    \/ devicelist_keyword
    \/ devicelist_end
    \/ device
    \/ name
    \/ device_named
    \/ device_list
    \/ device_kind
    \/ device_make
    \/ device_end
    \/ clock
    \/ clock_number
    \/ parameter_close
    \/ parameter_end
    \/ switch
    \/ switch_state
    \/ switch_close
    \/ gate
    \/ gate_number
    \/ connectionlist
    \/ connectionlist_brace
    \/ connectionlist_loop
    \/ connectionlist_check
    \/ connectionlist_keyword
    \/ connectionlist_end
    \/ con
    \/ point
    \/ point_named
    \/ con_source
    \/ con_points
    \/ con_make
    \/ con_end
    \/ monitorlist
    \/ monitorlist_brace
    \/ monitorlist_loop
    \/ monitorlist_end
    \/ monitor
    \/ monitor_make
    \/ monitor_end

Spec == Init /\ [][Next]_vars

\* What a parse ends with: the reports and their count, what parse_network
\* returned, the devices made with their connections, in the order of the
\* calls that made them, the monitors made, and the symbols read.
Outcome ==
    [ error_count |-> error_count, error_ |-> error_, result |-> result,
      error_msg |-> error_msg, devices |-> devices, monitors |-> monitors,
      pos |-> pos, scanner_printed |-> scanner_printed ]

\* The file is parsed again as it would be if the Scanner of the first
\* parse, which has read the file, were handed to the second Parser.
parse_again_with_scanner ==
    /\ pc \in {"done", "raised"}
    /\ first_run = << >>
    /\ first_run' = << Outcome >>
    /\ source' = source
    /\ symbol' = symbol
    /\ pos' = pos
    /\ scanner_printed' = scanner_printed
    /\ error_msg' = [blocks |-> << >>, total |-> None]
    /\ check_symbol' = EmptySymbol
    /\ error_' = FALSE
    /\ error_count' = 0
    /\ skip' = FALSE
    /\ cur_attribute' = None
    /\ cur_device_name_list' = << >>
    /\ cur_pin_name_list' = << >>
    /\ cur_arrow' = EmptySymbol
    /\ devices' = << >>
    /\ monitors' = {}
    /\ pc' = "circuit"
    /\ stack' = << "parse_network" >>
    /\ returned' = "None"
    /\ type_' = "devicename"
    /\ stopping_symbol' = NoString
    /\ right_brace' = TRUE
    /\ valid_device_list' = TRUE
    /\ kind' = NoString
    /\ connect_Symbol' = EmptySymbol
    /\ out_device_sym' = EmptySymbol
    /\ out_pin_sym' = EmptySymbol
    /\ con_i' = 1
    /\ printed' = NoPrint
    /\ result' = "None"
    /\ raised_at' = None
    /\ entered' = [position |-> None, errors |-> 0]
    /\ iteration' = None
    /\ redeclared' = FALSE
    /\ steps' = 0
    /\ UNCHANGED << scan_vars, driver_vars, table_vars, swap_vars >>

\* The file is parsed again: a new Scanner on the same file and a new Parser
\* with new Names, Devices, Network and Monitors, after the outcome of the
\* first parse has been put aside.
parse_again ==
    /\ pc \in {"done", "raised"}
    /\ first_run = << >>
    /\ first_run' = << Outcome >>
    /\ source' = source
    /\ symbol' = symbol_at(0)
    /\ pos' = 1
    /\ scanner_printed' = IF comment_at(1) THEN 1 ELSE 0
    /\ error_msg' = [blocks |-> << >>, total |-> None]
    /\ check_symbol' = EmptySymbol
    /\ error_' = FALSE
    /\ error_count' = 0
    /\ skip' = FALSE
    /\ cur_attribute' = None
    /\ cur_device_name_list' = << >>
    /\ cur_pin_name_list' = << >>
    /\ cur_arrow' = EmptySymbol
    /\ devices' = << >>
    /\ monitors' = {}
    /\ pc' = "circuit"
    /\ stack' = << "parse_network" >>
    /\ returned' = "None"
    /\ type_' = "devicename"
    /\ stopping_symbol' = NoString
    /\ right_brace' = TRUE
    /\ valid_device_list' = TRUE
    /\ kind' = NoString
    /\ connect_Symbol' = EmptySymbol
    /\ out_device_sym' = EmptySymbol
    /\ out_pin_sym' = EmptySymbol
    /\ con_i' = 1
    /\ printed' = NoPrint
    /\ result' = "None"
    /\ raised_at' = None
    /\ entered' = [position |-> None, errors |-> 0]
    /\ iteration' = None
    /\ redeclared' = FALSE
    /\ steps' = 0
    /\ UNCHANGED << scan_vars, driver_vars, table_vars, swap_vars >>

TwiceNext == Next \/ parse_again

\* The files parsed twice: the seed files, the short files, and the files
\* one token away from one of the seed files.
TwiceSources(n) ==
    Files \cup GateFiles \cup ShortFiles(n) \cup OneTokenAway(clock_not_file)

TwiceInit == InitOn(TwiceSources(MaxFree))

TwiceSpec == TwiceInit /\ [][TwiceNext]_vars

\* The Scanner alone on a file of characters, get_symbol called until the
\* end of the file; the parser does not run.
ScanInit ==
    /\ source = << >>
    /\ ParserInit
    /\ first_run = << >>
    /\ NoSwap
    /\ file \in Texts(MaxText)
    /\ scanner = opened(file)
    /\ scanned = NotScanned
    /\ output = NoOutput
    /\ NoDriver
    /\ NoTable

ScanNext == Scanner_get_symbol

ScanSpec == ScanInit /\ [][ScanNext]_vars

\* The files whose errors are printed: texts of several lines, of up to
\* MaxLines characters, and lines too long to be printed whole, of up to
\* MaxLine characters, with a short line before or a line break after.
MaxLines == 5
MaxLine == 83

LineChars == {"A", " ", "\n", "\\"}

marks == << ",", ";", "=", "{", "}", "(", ")", ">", ".", "0" >>

long_line(n) == [i \in 1..n |-> marks[((i - 1) % Len(marks)) + 1]]

PrintedFiles ==
    UNION { [1..n -> LineChars] : n \in 0..MaxLines }
      \cup { before \o long_line(n) \o after :
               before \in {<< >>, << ";", "\n" >>},
               n \in (max_error_line_length + 1)..MaxLine,
               after \in {<< >>, << "\n" >>} }

PrintInit ==
    /\ source = << >>
    /\ ParserInit
    /\ first_run = << >>
    /\ NoSwap
    /\ file \in PrintedFiles
    /\ scanner = opened(file)
    /\ scanned = NotScanned
    /\ output = NoOutput
    /\ NoDriver
    /\ NoTable

PrintNext == Scanner_get_symbol \/ Scanner_print_error

PrintSpec == PrintInit /\ [][PrintNext]_vars

\* The Gui once a definition file has been parsed: the signals of its
\* MONITOR section are monitored, and no cycle has been run.
GuiInit ==
    /\ source = << >>
    /\ ParserInit
    /\ first_run = << >>
    /\ NoSwap
    /\ file = << >>
    /\ scanner = opened(file)
    /\ scanned = NotScanned
    /\ output = NoOutput
    /\ NoTable
    /\ cycles_completed = 0
    /\ \E monitored \in SUBSET Signals :
          /\ monitors_dictionary = [m \in monitored |-> << >>]
          /\ created = [m \in monitored |-> 0]
    /\ gui_pc = "idle"
    /\ cycles = 0
    /\ left = 0
    /\ run_log = << >>
    /\ records = 0
    /\ oscillated = FALSE

GuiNext ==
    \/ on_run_button
    \/ run_network_cycle
    \/ run_network_return
    \/ on_restart_button
    \/ on_add_button
    \/ on_zap_button

GuiSpec == GuiInit /\ [][GuiNext]_vars

\* The Gui once a definition file has been parsed without error: every
\* input is connected, nothing is selected in the two boxes.
SwapInit ==
    /\ source = << >>
    /\ ParserInit
    /\ first_run = << >>
    /\ file = << >>
    /\ scanner = opened(file)
    /\ scanned = NotScanned
    /\ output = NoOutput
    /\ NoDriver
    /\ NoTable
    /\ connections \in [SwapInputs -> SwapOutputs]
    /\ input_for_swap = NoSignal
    /\ output_for_swap = NoSignal
    /\ swap_conn_box = [choices |-> get_conn_names(connections),
                        selection |-> NOT_FOUND]
    /\ new_conn_box = [choices |-> {}, selection |-> NOT_FOUND]
    /\ replace_log = << >>
    /\ chosen_for = NoSignal

SwapNext == on_swap_conn \/ on_new_conn \/ on_replace_button

SwapSpec == SwapInit /\ [][SwapNext]_vars

\* A new table of either class.
NamesInit ==
    /\ source = << >>
    /\ ParserInit
    /\ first_run = << >>
    /\ NoSwap
    /\ file = << >>
    /\ scanner = opened(file)
    /\ scanned = NotScanned
    /\ output = NoOutput
    /\ NoDriver
    /\ names_table = << >>
    /\ version \in Versions
    /\ call = [op |-> NoString]
    /\ first_lookups = << >>

NamesNext == MyNames_lookup \/ MyNames_get_string \/ Names_query

NamesSpec == NamesInit /\ [][NamesNext]_vars

\* parse_network has returned.
Done == pc = "done"

\* print_error has raised: the run ends without a result.
Raised == pc = "raised"

\* ------------------------------------------------------------------------
\* Properties
\* ------------------------------------------------------------------------

\* C1: the error flag is set exactly when errors have been counted, the
\* count never decreases, and parse_network returns true exactly when the
\* count is 0 on return.
C1_ResultCountsErrors ==
    /\ [](/\ error_ <=> error_count > 0
          /\ Done => (result = "True" <=> error_count = 0)
          /\ Done => result \in {"True", "False"})
    /\ [][error_count' >= error_count]_vars

\* C1: parse_network has returned false after several errors.
C1_Witness == Done /\ error_count > 1 /\ result = "False"

\* The input pins of the registered devices.
input_pins(devs) ==
    UNION { { << devs[i].device_id, p >> : p \in DOMAIN devs[i].inputs } :
              i \in 1..Len(devs) }

\* C2: when parse_network returns true no input pin of a registered device
\* is left without its connection.
C2_TrueMeansConnected ==
    Done /\ result = "True" => check_network(devices) = {}

\* C2: parse_network has returned true for a circuit with several input
\* pins.
C2_Witness ==
    Done /\ result = "True" /\ Cardinality(input_pins(devices)) > 1

\* The IDs of the keywords that name a device kind.
device_kind_ids ==
    { CLOCK_ID, SWITCH_ID, AND_ID, NAND_ID, OR_ID, NOR_ID, XOR_ID, NOT_ID,
      DTYPE_ID }

\* C3: in a device clause, a symbol after '=' that is not one of the nine
\* device kind keywords is reported as 'Not a supported device' and leads to
\* no make_* call.
C3_OnlyKindKeywords ==
    [][pc = "device_kind"
         /\ ~(symbol.type = "KEYWORD" /\ symbol.id \in device_kind_ids)
       => /\ printed'.message = UnsupportedDeviceMessage
          /\ devices' = devices
          /\ "device_make" \notin Range(stack')]_vars

\* C3: a number after '=' was not reported as an unsupported device.
C3_Witness ==
    /\ pc = "clock"
    /\ source[pos - 1] = "5"
    /\ ~error_

\* C4: in a SWITCH clause anything but ZERO or the NUMBER 1 after '(' is an
\* error, anything but ')' after it is an error, and no switch is made once
\* an error has been reported.
C4_SwitchStateZeroOrOne ==
    [][/\ pc = "switch_state"
            /\ ~(symbol.type = "ZERO"
                   \/ (symbol.type = "NUMBER" /\ symbol.id = 1))
          => error_'
       /\ pc = "switch_close" /\ symbol.type # "PARENTHESIS_RIGHT" => error_'
       /\ pc = "device_make" /\ kind = "SWITCH" /\ error_
          => devices' = devices]_vars

\* C4: a switch whose state was written as a keyword has been registered and
\* parse_network has returned true.
C4_Witness ==
    /\ Done
    /\ result = "True"
    /\ \E i \in 1..Len(source) - 2 :
         /\ source[i] = "SWITCH"
         /\ source[i + 1] = "("
         /\ source[i + 2] \in {"CIRCUIT", "DEVICES"}

\* C5: a parse that declared a device name twice returns false, and the
\* registry never holds a device ID twice.
C5_DuplicateDeviceIsError ==
    /\ Done /\ redeclared => result = "False"
    /\ \A i, j \in 1..Len(devices) :
         devices[i].device_id = devices[j].device_id => i = j

\* C5: a name has been declared twice and parse_network has returned true.
C5_Witness == Done /\ redeclared /\ result = "True"

\* The section that starts at symbol p is the keyword and an empty pair of
\* braces.
EmptySection(keyword, p) ==
    /\ p # None
    /\ p + 3 <= Len(source)
    /\ source[p + 1] = keyword
    /\ source[p + 2] = "{"
    /\ source[p + 3] = "}"

\* C6: a section written as its keyword and an empty pair of braces is
\* parsed without an error being reported and ends with exactly those three
\* symbols consumed.
C6_EmptySectionConforms ==
    [][\A section \in {"devicelist", "connectionlist", "monitorlist"} :
         pc' = section \o "_end"
           /\ EmptySection(CASE section = "devicelist" -> "DEVICES"
                             [] section = "connectionlist" -> "CONNECT"
                             [] OTHER -> "MONITOR",
                           entered'.position)
         => /\ error_count' = entered'.errors
            /\ symbol'.position = entered'.position + 2]_vars

\* C6: an empty DEVICES section was entered without an error before it and
\* left with one.
C6_Witness ==
    /\ pc = "devicelist_end"
    /\ EmptySection("DEVICES", entered.position)
    /\ entered.errors = 0
    /\ error_count > 0

\* A keyword error has been reported at sym.
KeywordReported(report, sym) ==
    /\ report.message \in {KeywordNameMessage, KeywordDeviceNameMessage}
    /\ report.symbol = sym

\* The places where the parser expects a device name or a pin name: __name
\* itself, and the start of a clause in the loop of a list.
NameExpected ==
    \/ pc \in {"name", "devicelist_check", "connectionlist_check"}
    \/ /\ pc \in {"devicelist_loop", "connectionlist_loop", "monitorlist_loop"}
       /\ InList

\* The parser goes on into the clause without a report, or reports a keyword
\* error at the current symbol.
KeywordStep ==
    \/ /\ pc' \in {"device", "con", "monitor", "devicelist_check",
                   "connectionlist_check"}
       /\ printed' = NoPrint
    \/ /\ KeywordReported(printed', symbol)
       /\ error_'

\* The re-synchronization hooks: at the start of a second or later clause,
\* CONNECT '{' in the device list, MONITOR '{' in the connection list and END
\* in the monitor list are taken as a missing right brace.
Hook ==
    \/ /\ pc \in {"devicelist_check", "connectionlist_check"}
       /\ check_symbol.type = "BRACE_LEFT"
    \/ /\ pc = "monitorlist_loop"
       /\ symbol.id = END_ID

\* C7 as claimed: wherever a name is expected a keyword is reported with a
\* keyword error anchored at it, and the error flag is set.
C7_KeywordAlwaysReported ==
    [][NameExpected /\ symbol.type = "KEYWORD" => KeywordStep]_vars

\* C7 as amended: the same wherever a name is expected, except where a
\* re-synchronization hook takes the keyword as a missing right brace.
C7_KeywordReportedUnlessHook ==
    [][NameExpected /\ symbol.type = "KEYWORD" /\ ~Hook => KeywordStep]_vars

\* C7: a keyword written as a pin name has been reported.
C7_Witness ==
    /\ type_ = "pinname"
    /\ printed.message = KeywordNameMessage
    /\ printed.symbol.type = "KEYWORD"
    /\ error_

\* The least element of a non-empty set of integers.
Min(S) == CHOOSE m \in S : \A n \in S : m <= n

\* C8: when the skipping loop of __error ends, the current symbol is the
\* first one at or after the symbol current when the error was raised that
\* is spelled like the stopping symbol, or EOF if there is none.
C8_StopsAtFirstStoppingSymbol ==
    pc = "error_skip" /\ (symbol.string = stopping_symbol \/ symbol.type = "EOF")
      => LET hits == { q \in raised_at..(Len(source) - 1) :
                         source[q + 1] = stopping_symbol }
         IN  IF hits = {}
             THEN symbol.type = "EOF"
             ELSE symbol.position = Min(hits)

\* C8: the skipping loop has ended past a symbol spelled like the stopping
\* symbol.
C8_Witness ==
    /\ pc = "error_skip"
    /\ symbol.string = stopping_symbol
    /\ \E q \in raised_at..(symbol.position - 1) :
         source[q + 1] = stopping_symbol


\* Steps the parser takes per symbol read, at most.
MaxIdle == 16

\* Symbols the parser reads past the last one of the file, at most.
MaxPastEnd == 6

\* The loops of the three lists, and where each goes when it is left.
ListLoops == {"devicelist_loop", "connectionlist_loop", "monitorlist_loop"}
ListEnds == {"devicelist_end", "connectionlist_end", "monitorlist_end"}

\* The iteration of a list loop that has just ended read a symbol, or left
\* '}' or EOF as the current symbol.
IterationProgress ==
    symbol.position > iteration \/ symbol.type \in {"BRACE_RIGHT", "EOF"}

\* The run ends: the parser is never stuck before parse_network returns or
\* print_error raises, and the steps it takes are bounded by the symbols it
\* reads, which are bounded by the length of the file.
Terminates ==
    /\ [](Done \/ Raised \/ ENABLED Next)
    /\ [](steps <= MaxIdle * pos)
    /\ [](pos <= Len(source) + MaxPastEnd)

\* The cursor only moves forward, and an iteration of the skipping loop of
\* __error that does not leave the loop reads a symbol.
CursorForward ==
    /\ [][pos' >= pos]_vars
    /\ [][pc = "error_skip" /\ pc' = "error_skip" => pos' > pos]_vars

\* C9 as claimed: the parser terminates, the cursor only moves forward, and
\* every iteration of a list loop, however it ends, has read a symbol or
\* left '}' or EOF as the current symbol.
C9_EveryIterationProgresses ==
    /\ Terminates
    /\ CursorForward
    /\ [](pc \in ListLoops \cup ListEnds /\ iteration # None
            => IterationProgress)

\* C9 as amended: the same for every iteration that runs to its end; the
\* monitor list's iteration that breaks on END leaves the loop without
\* reading a symbol.
C9_CompletedIterationProgresses ==
    /\ Terminates
    /\ CursorForward
    /\ [](pc \in ListLoops \cup {"devicelist_end", "connectionlist_end"}
            /\ iteration # None
            => IterationProgress)
    /\ [](pc = "monitorlist_end" /\ iteration # None /\ ~IterationProgress
            => symbol.id = END_ID /\ ~right_brace)

\* C9: parse_network has returned after a list loop iterated and the
\* skipping loop of __error ran to the end of the file.
C9_Witness ==
    /\ Done
    /\ symbol.type = "EOF"
    /\ raised_at # None
    /\ \E i \in 1..Len(devices) : devices[i].device_kind = "NAND"

\* C10: print_error never raises: every symbol a diagnostic is anchored at
\* carries a source position.
C10_NeverRaises ==
    /\ ~Raised
    /\ printed # NoPrint => printed.symbol.position # None

\* C10: print_error has raised on the pin symbol of a point written without
\* a pin.
C10_Witness ==
    /\ Raised
    /\ printed.symbol = EmptySymbol
    /\ printed.message = error_message["PORT_ABSENT_2"]

\* ------------------------------------------------------------------------
\* Lexical errors
\* ------------------------------------------------------------------------

\* The file has a character that starts no symbol outside its comments, or
\* ends inside a comment.
LexicalError ==
    \/ \E k \in 1..Len(source) : source[k] \in invalid_spellings /\ ~comment_at(k)
    \/ comment_at(Len(source))

\* C11: when parse_network has returned on a file with an INVALID character
\* outside comments or with a comment that is not closed, it has returned
\* false and error_count is at least 1.
C11_LexicalErrorSurfaced ==
    (Done /\ LexicalError) => (result = "False" /\ error_count >= 1)

\* parse_network has returned on a file whose only defect is lexical and
\* comes after the closing END.
C11_Witness ==
    /\ Done
    /\ LexicalError
    /\ Len(source) > 1
    /\ source[Len(source) - 1] = "END"
    /\ result = "True"
    /\ error_count = 0

\* ------------------------------------------------------------------------
\* The error text
\* ------------------------------------------------------------------------

\* C12: when parse_network has returned, error_msg holds exactly error_count
\* blocks followed by the count N = error_count, and the print_error calls
\* of the parse, the parser's and the scanner's, number error_count.
C12_ErrorTextComplete ==
    Done =>
        /\ Len(error_msg.blocks) = error_count
        /\ error_msg.total = error_count
        /\ error_count + scanner_printed = error_count

\* parse_network has returned after the scanner printed an error block that
\* error_msg and error_count do not have.
C12_Witness ==
    /\ Done
    /\ scanner_printed > 0
    /\ Len(error_msg.blocks) = error_count
    /\ error_msg.total = error_count

\* ------------------------------------------------------------------------
\* Semantic errors of the connection list
\* ------------------------------------------------------------------------

UnconnectedMessage == "unconnected inputs"

\* C13: the unconnected inputs are reported by the step that ends the
\* connection list, and by no other, exactly when no error was reported
\* before and some input has no connection; the report is anchored at the
\* CONNECT keyword and takes error_count from 0 to 1, so it is made once.
C13_UnconnectedReportedOnce ==
    [][ /\ (printed'.message = UnconnectedMessage) <=>
             (pc = "connectionlist_end" /\ ~error_
                /\ check_network(devices) # {})
        /\ (printed'.message = UnconnectedMessage) =>
             /\ printed'.symbol = connect_Symbol
             /\ connect_Symbol.type = "KEYWORD"
             /\ connect_Symbol.id = CONNECT_ID
             /\ error_count = 0
             /\ error_count' = 1
             /\ Len(error_msg'.blocks) = 1 ]_vars

\* The unconnected inputs have been reported, the parse has gone on and
\* returned with that single error.
C13_Witness ==
    /\ Done
    /\ error_count = 1
    /\ Len(error_msg.blocks) = 1
    /\ error_msg.blocks[1].message = UnconnectedMessage
    /\ error_msg.blocks[1].symbol.id = CONNECT_ID
    /\ check_network(devices) # {}

\* print_error has just been called with this message.
Reported(message) == printed.message = message

\* The symbols of the destinations of the connection statement.
Destinations ==
    { cur_device_name_list[i] : i \in 1..Len(cur_device_name_list) }
      \cup { cur_pin_name_list[i] : i \in 1..Len(cur_pin_name_list) }

\* C14 as stated: 'Output connected to output' is reported once, anchored at
\* a destination token of the statement, as the first error.
C14_AnchoredAtDestination ==
    Reported(error_message["OUTPUT_TO_OUTPUT"]) =>
        (printed.symbol \in Destinations /\ error_count = 1)

\* C14: 'Output connected to output' is reported once, anchored at the
\* arrow of the statement, as the first error.
C14_AnchoredAtArrow ==
    Reported(error_message["OUTPUT_TO_OUTPUT"]) =>
        /\ printed.symbol = cur_arrow
        /\ cur_arrow.type = "ARROW"
        /\ printed.symbol \notin Destinations
        /\ error_count = 1
        /\ Len(error_msg.blocks) = 1

\* An output has just been connected to an output.
C14_Witness ==
    /\ Reported(error_message["OUTPUT_TO_OUTPUT"])
    /\ pc = "con_end"
    /\ Len(cur_device_name_list) >= 1
    /\ error_count = 1

\* ------------------------------------------------------------------------
\* Parameters out of range
\* ------------------------------------------------------------------------

and_17_file == gate_file("AND", "17")

\* The token of the file (counted from 0, as positions are) spelled t.
TokenOf(t) == (CHOOSE k \in 1..Len(source) : source[k] = t) - 1

\* C15 as stated: `A = AND(17);` in an otherwise valid file gives exactly one
\* error, 'Number of inputs must be between 1-16', with the caret under the
\* 7, the second character of the number.
C15_CaretUnderSeven ==
    (Done /\ source = and_17_file) =>
        /\ error_count = 1
        /\ Len(error_msg.blocks) = 1
        /\ error_msg.blocks[1].message = GateRangeMessage
        /\ caret(error_msg.blocks[1].symbol) =
             [token |-> TokenOf("17"), char |-> 2]

\* C15: `A = AND(17);` in an otherwise valid file gives exactly one error,
\* 'Number of inputs must be between 1-16', with the caret under the 1, the
\* first character of the number.
C15_CaretUnderOne ==
    (Done /\ source = and_17_file) =>
        /\ error_count = 1
        /\ Len(error_msg.blocks) = 1
        /\ error_msg.blocks[1].message = GateRangeMessage
        /\ error_msg.blocks[1].symbol.type = "NUMBER"
        /\ caret(error_msg.blocks[1].symbol) =
             [token |-> TokenOf("17"), char |-> 1]

\* The file with AND(17) has been parsed to its end.
C15_Witness ==
    /\ Done
    /\ source = and_17_file
    /\ result = "False"
    /\ error_count = 1

Gates == {"AND", "NAND", "OR", "NOR"}

\* The device named A has been made.
Made == get_device(devices, query("A")) # 0

\* C16 as stated: for each of the four gates a parameter of 0 and one above
\* 16 are both rejected with 'Number of inputs must be between 1-16', and no
\* gate is made.
C16_ZeroAndLargeOutOfRange ==
    \A g \in Gates, n \in {"0", "17"} :
        (Done /\ source = gate_file(g, n)) =>
            /\ error_msg.blocks[1].message = GateRangeMessage
            /\ ~Made

\* C16: for each of the four gates a parameter above 16 is rejected with
\* 'Number of inputs must be between 1-16' and a parameter of 0, which the
\* scanner returns as a ZERO symbol and not as a NUMBER, with 'Expected number
\* of inputs for ... gate (valid range: 1-16)'; either is the only error,
\* anchored at the parameter, and no gate is made.
C16_LargeOutOfRangeZeroNoNumber ==
    \A g \in Gates, n \in {"0", "17"} :
        (Done /\ source = gate_file(g, n)) =>
            /\ error_count = 1
            /\ error_msg.blocks[1].message =
                 (IF n = "0" THEN GateNumberMessage ELSE GateRangeMessage)
            /\ error_msg.blocks[1].symbol.string = n
            /\ error_msg.blocks[1].symbol.type =
                 (IF n = "0" THEN "ZERO" ELSE "NUMBER")
            /\ ~Made
            /\ result = "False"

\* A file with a gate of parameter 0 has been parsed to its end.
C16_Witness ==
    /\ Done
    /\ source = gate_file("NOR", "0")
    /\ error_count = 1
    /\ ~Made

\* The clock and inverter file with A = CLOCK(0).
clock_0_file ==
    [ i \in 1..Len(clock_not_file) |->
        IF clock_not_file[i] = "1" THEN "0" ELSE clock_not_file[i] ]

\* C17 as stated: `A = CLOCK(0);` is rejected with 'Clock half period must
\* be greater than 0', and no clock is made.
C17_ZeroHalfPeriodOutOfRange ==
    (Done /\ source = clock_0_file) =>
        /\ error_msg.blocks[1].message = ClockRangeMessage
        /\ ~Made

\* C17: `A = CLOCK(0);` is rejected, the 0 being a ZERO symbol and not a
\* NUMBER, with 'Expected a number n > 0, ...' anchored at the 0 as the only
\* error, and no clock is made.
C17_ZeroHalfPeriodNoNumber ==
    (Done /\ source = clock_0_file) =>
        /\ error_count = 1
        /\ error_msg.blocks[1].message = ClockNumberMessage
        /\ error_msg.blocks[1].symbol.type = "ZERO"
        /\ caret(error_msg.blocks[1].symbol) =
             [token |-> TokenOf("0"), char |-> 1]
        /\ ~Made
        /\ result = "False"

\* The file with CLOCK(0) has been parsed to its end, with no clock made.
C17_Witness ==
    /\ Done
    /\ source = clock_0_file
    /\ "CLOCK" \in Range(source)
    /\ error_count = 1
    /\ ~Made

\* ------------------------------------------------------------------------
\* A missing right brace
\* ------------------------------------------------------------------------

BraceMessage == "Expected '}'"

\* The file f without its token j.
Without(f, j) == SubSeq(f, 1, j - 1) \o SubSeq(f, j + 1, Len(f))

\* The right braces of f that close the DEVICES or the CONNECT list.
ListBraces(f) ==
    { j \in 1..(Len(f) - 2) :
        f[j] = "}" /\ f[j + 1] \in {"CONNECT", "MONITOR"} /\ f[j + 2] = "{" }

\* Files of the model that conform to the grammar and connect every input.
ConformingFiles ==
    { switch_gate_file, clock_not_file, empty_file, empty_connect_file,
      empty_monitor_file }

\* The only error reported is the missing brace, at the token at position p.
OnlyBraceReported(p, keyword) ==
    /\ error_count = 1
    /\ Len(error_msg.blocks) = 1
    /\ error_msg.blocks[1].message = BraceMessage
    /\ error_msg.blocks[1].symbol = Symbol(p, keyword)

\* C18: when a conforming file has lost the right brace that closes its
\* DEVICES or its CONNECT list, the parse reports one error, "Expected '}'"
\* anchored at the keyword that follows, and nothing else.
C18_MissingBraceResynchronized ==
    \A f \in ConformingFiles : \A j \in ListBraces(f) :
        (Done /\ source = Without(f, j)) => OnlyBraceReported(j - 1, f[j + 1])

\* A file whose lists have clauses and one of which has lost its right
\* brace has been parsed with the one error of the missing brace.
C18_Witness ==
    /\ Done
    /\ \E f \in {switch_gate_file, clock_not_file} : \E j \in ListBraces(f) :
         /\ source = Without(f, j)
         /\ f[j + 1] = "MONITOR"
         /\ OnlyBraceReported(j - 1, f[j + 1])
         /\ monitors = {}

\* The same for the brace of the DEVICES list.
C18_WitnessDevices ==
    /\ Done
    /\ \E f \in {switch_gate_file, clock_not_file} : \E j \in ListBraces(f) :
         /\ source = Without(f, j)
         /\ f[j + 1] = "CONNECT"
         /\ OnlyBraceReported(j - 1, f[j + 1])

\* With clauses in the list that lost its brace and in the lists after it,
\* the missing brace is the only error.
C18_NonEmptyLists ==
    \A f \in {switch_gate_file, clock_not_file} : \A j \in ListBraces(f) :
        (Done /\ source = Without(f, j)) => OnlyBraceReported(j - 1, f[j + 1])

\* ------------------------------------------------------------------------
\* Connection uniqueness
\* ------------------------------------------------------------------------

\* __con is about to connect an output of a registered device to an input
\* that has a connection already.
ConnectsConnectedInput ==
    /\ pc = "con_make"
    /\ ~error_
    /\ con_i <= Len(cur_device_name_list)
    /\ LET f == get_device(devices, query(out_device_sym.string))
           s == get_device(devices, query(cur_device_name_list[con_i].string))
           pin == query(cur_pin_name_list[con_i].string)
       IN  /\ f # 0
           /\ s # 0
           /\ query(out_pin_sym.string) \in devices[f].outputs
           /\ pin \in DOMAIN devices[s].inputs
           /\ devices[s].inputs[pin] # NotConnected

\* No connection of an input is replaced or removed.
ConnectionsKept ==
    \A d \in 1..Len(devices) : \A pin \in DOMAIN devices[d].inputs :
        devices[d].inputs[pin] # NotConnected =>
            /\ d <= Len(devices')
            /\ pin \in DOMAIN devices'[d].inputs
            /\ devices'[d].inputs[pin] = devices[d].inputs[pin]

PositionedAtFirstCharacter ==
    /\ scanned.position \in 0..(Len(file) - 1)
    /\ scanned.position + Len(scanned.string) <= Len(file)
    /\ SubSeq(file, scanned.position + 1,
              scanned.position + Len(scanned.string)) = scanned.string

\* C20: the position of every symbol get_symbol returns before the end of
\* the file, a single backslash and a symbol after a comment included, is
\* the offset of the first character of its string.
C20_PositionIsOffset ==
    scanned.type \notin {"None", "EOF"} => PositionedAtFirstCharacter

\* A single backslash that ends the file has been returned as an invalid
\* character, one place after its own.
C20_Witness ==
    /\ scanned.type = "INVALID_CHARACTER"
    /\ scanned.string = << "\\" >>
    /\ Len(file) > 1
    /\ file[Len(file)] = "\\"
    /\ file[Len(file) - 1] # "\\"
    /\ scanned.position = Len(file)

\* Before the last character of the file every symbol is positioned at its
\* first character.
PositionIsOffsetBeforeLast ==
    (scanned.type \notin {"None", "EOF"}
       /\ ~(scanned.string = << "\\" >> /\ scanned.position = Len(file)))
      => PositionedAtFirstCharacter

\* A name after a comment has been returned at its place.
AfterComment ==
    /\ scanned.type = "NAME"
    /\ scanned.position = 5
    /\ SubSeq(file, 1, 2) = << "\\", "\\" >>
    /\ SubSeq(file, 4, 5) = << "\\", "\\" >>

\* ------------------------------------------------------------------------
\* Comment skipping
\* ------------------------------------------------------------------------

\* A double backslash starts at character i of f.
DoubleBackslash(f, i) == i + 1 <= Len(f) /\ f[i] = "\\" /\ f[i + 1] = "\\"

\* The first double backslash of f from character i on, 0 if there is none.
RECURSIVE NextDouble(_, _)
NextDouble(f, i) ==
    IF i + 1 > Len(f) THEN 0
    ELSE IF DoubleBackslash(f, i) THEN i ELSE NextDouble(f, i + 1)

\* f from character i on, with every comment, from an opening double
\* backslash to the next closing one, replaced by a space.
RECURSIVE Uncommented(_, _)
Uncommented(f, i) ==
    IF i > Len(f) THEN << >>
    ELSE IF DoubleBackslash(f, i) /\ NextDouble(f, i + 2) # 0
    THEN << " " >> \o Uncommented(f, NextDouble(f, i + 2) + 2)
    ELSE << f[i] >> \o Uncommented(f, i + 1)

\* Type and spelling of the symbols get_symbol returns for f from the
\* scanner state sc up to the first EOF.
RECURSIVE Symbols(_, _)
Symbols(f, sc) ==
    LET got == scan(f, sc)
        this == << [type |-> got.symbol.type, string |-> got.symbol.string] >>
    IN  IF got.symbol.type = "EOF" THEN this
        ELSE this \o Symbols(f, got.scanner)

\* C21: when a file has been scanned to its end, the symbols returned for it
\* are those returned for the file with its comments replaced by spaces.
C21_CommentsAreSpaces ==
    scanned.type = "EOF" =>
        Symbols(file, opened(file))
          = Symbols(Uncommented(file, 1), opened(Uncommented(file, 1)))

\* A file with an empty comment has been scanned to its end and one
\* backslash of the comment has been returned as a symbol.
C21_Witness ==
    /\ scanned.type = "EOF"
    /\ file = << "A", "\\", "\\", "\\", "\\" >>
    /\ Uncommented(file, 1) = << "A", " " >>
    /\ Len(Symbols(file, opened(file))) = 3

\* With one character or more between the double backslashes of each
\* comment, the symbols are those of the file with spaces for comments.
CommentsWithTextAreSpaces ==
    (scanned.type = "EOF"
       /\ \A i \in 1..Len(file) : ~(DoubleBackslash(file, i)
                                      /\ DoubleBackslash(file, i + 1))) =>
        Symbols(file, opened(file))
          = Symbols(Uncommented(file, 1), opened(Uncommented(file, 1)))

\* ------------------------------------------------------------------------
\* Digits
\* ------------------------------------------------------------------------

\* The digits of f from character i on, up to the first character that is
\* not a digit.
RECURSIVE DigitRun(_, _)
DigitRun(f, i) ==
    IF i <= Len(f) /\ isdigit(f[i]) THEN << f[i] >> \o DigitRun(f, i + 1)
    ELSE << >>

\* The integer a run of digits writes.
RECURSIVE Value(_)
Value(run) ==
    IF run = << >> THEN 0
    ELSE 10 * Value(SubSeq(run, 1, Len(run) - 1)) + digit_value(run[Len(run)])

\* The symbol returned last starts at a character of the file.
StartsInFile == scanned.type \notin {"None", "EOF"} /\ scanned.position < Len(file)

\* C22: a 0 where a symbol starts gives a ZERO symbol of id 0 that consumes
\* that character alone; any other digit gives a NUMBER whose id is the
\* value of the longest run of digits from there, which is at least 1 and
\* is consumed whole.
C22_ZeroAloneNumberMaximal ==
    /\ (StartsInFile /\ file[scanned.position + 1] = "0") =>
         /\ scanned.type = "ZERO"
         /\ scanned.id = 0
         /\ scanned.string = << "0" >>
         /\ scanner.file_position = scanned.position + 1
    /\ (StartsInFile /\ isdigit(file[scanned.position + 1])
          /\ file[scanned.position + 1] # "0") =>
         /\ scanned.type = "NUMBER"
         /\ scanned.id = Value(DigitRun(file, scanned.position + 1))
         /\ scanned.id >= 1
         /\ scanner.file_position
              = scanned.position + Len(DigitRun(file, scanned.position + 1))
    /\ scanned.type = "ZERO" =>
         (StartsInFile /\ file[scanned.position + 1] = "0")
    /\ scanned.type = "NUMBER" =>
         (StartsInFile /\ isdigit(file[scanned.position + 1])
            /\ file[scanned.position + 1] # "0")

\* A number of two digits after a zero: 0110 has been scanned as ZERO and
\* then NUMBER 110.
C22_Witness ==
    /\ Len(file) >= 4
    /\ SubSeq(file, 1, 4) = << "0", "1", "1", "0" >>
    /\ scanned.type = "NUMBER"
    /\ scanned.position = 1
    /\ scanned.id = 110

\* ------------------------------------------------------------------------
\* End of file
\* ------------------------------------------------------------------------

\* What get_symbol has still to read: the current character and the file
\* after it.
Remaining(f, sc) ==
    IF sc.current_character = "" THEN << >> ELSE SubSeq(f, sc.tell, Len(f))

\* Nothing but whitespace and comments: once the closed comments are taken
\* out, whitespace, and then either nothing or a comment that is still open.
OnlyBlank(text) ==
    LET plain == Uncommented(text, 1)
    IN  \A i \in 1..Len(plain) :
            \/ isspace(plain[i])
            \/ \E j \in 1..i : /\ DoubleBackslash(plain, j)
                               /\ \A k \in 1..(j - 1) : isspace(plain[k])

\* C23: a call of get_symbol returns EOF exactly when only whitespace and
\* comments are left to read, and every call after one that returned EOF
\* returns EOF too.
C23_EOFExactAndAbsorbing ==
    [][ /\ scanned'.type = "EOF" <=> OnlyBlank(Remaining(file, scanner))
        /\ scanned.type = "EOF" => scanned'.type = "EOF" ]_vars

\* An empty comment is all there is, and the call returned an invalid
\* character.
C23_Witness ==
    /\ file = << "\\", "\\", "\\", "\\" >>
    /\ OnlyBlank(file)
    /\ scanned.type = "INVALID_CHARACTER"

\* The calls after the one that returned EOF return EOF.
EOFAbsorbing == [][scanned.type = "EOF" => scanned'.type = "EOF"]_vars

\* EOF has been returned a third time.
EOFThrice ==
    /\ scanned.type = "EOF"
    /\ file = << "A" >>
    /\ scanned.position = 3

\* EOF is returned only when whitespace and comments are all that is left.
EOFOnlyWhenBlank ==
    [][scanned'.type = "EOF" => OnlyBlank(Remaining(file, scanner))]_vars

\* Apart from comments with nothing in them, EOF is returned whenever
\* whitespace and comments are all that is left.
EOFWhenBlankWithText ==
    [][ ( /\ OnlyBlank(Remaining(file, scanner))
          /\ ~ \E i \in 1..Len(file) :
                 DoubleBackslash(file, i) /\ DoubleBackslash(file, i + 1) )
        => scanned'.type = "EOF" ]_vars

\* ------------------------------------------------------------------------
\* Line and column of an error
\* ------------------------------------------------------------------------

\* The line breaks among the first p characters of f.
BreaksBefore(f, p) == { i \in 1..p : i <= Len(f) /\ f[i] = "\n" }

\* The 1-based number of the line the character at offset p is on, and the
\* offset of the first character of that line.
LineOf(f, p) == 1 + Cardinality(BreaksBefore(f, p))
LineStart(f, p) ==
    IF BreaksBefore(f, p) = {} THEN 0
    ELSE CHOOSE i \in BreaksBefore(f, p) : \A j \in BreaksBefore(f, p) : j <= i

\* The line print_error reports is short enough to be printed whole, with
\* the marker where the column puts it.
Whole == Len(split(file, 1)[output.line]) <= max_error_line_length

\* C24: for every symbol returned by get_symbol, print_error reports the
\* line that contains symbol.position, and indents the marker by
\* symbol.position less the lengths, line breaks included, of the lines
\* before it (a line too long to be printed whole is shortened, and its
\* marker moved with it).
C24_LineContainsPosition ==
    output # NoOutput =>
        /\ scanned.position < Len(file)
        /\ output.line = LineOf(file, scanned.position)
        /\ Whole =>
             output.position
               = scanned.position - LineStart(file, scanned.position)

\* C24, amended: that holds for a symbol whose position is a character of
\* the file. For a symbol positioned at the end of the file or after it,
\* print_error reports the last line that has a character and indents the
\* marker by symbol.position less the lengths of the lines before that one;
\* for an empty file it reports line 1 with no indentation.
C24_LineOfPositionOrLast ==
    output # NoOutput =>
        IF scanned.position < Len(file)
        THEN /\ output.line = LineOf(file, scanned.position)
             /\ Whole =>
                  /\ output.position
                       = scanned.position - LineStart(file, scanned.position)
                  /\ output.line_text = split(file, 1)[output.line]
        ELSE IF file = << >>
        THEN output.line = 1 /\ output.position = 0
        ELSE /\ output.line = LineOf(file, Len(file) - 1)
             /\ Whole =>
                  /\ output.position
                       = scanned.position - LineStart(file, Len(file) - 1)
                  /\ output.line_text = split(file, 1)[output.line]

\* An error has been printed for a name that is the second character of the
\* third line.
C24_Witness ==
    /\ output # NoOutput
    /\ scanned.type = "NAME"
    /\ scanned.position < Len(file)
    /\ output.line = 3
    /\ output.position = 1

\* An error has been printed for the end of a file that ends with a line
\* break: the line before the break is reported.
EOFAfterBreak ==
    /\ file = << "A", "\n" >>
    /\ scanned.type = "EOF"
    /\ scanned.position = 2
    /\ output = [line |-> 1, line_text |-> << "A" >>, position |-> 2]

\* ------------------------------------------------------------------------
\* Lines too long to print whole
\* ------------------------------------------------------------------------

Elision == << "[", ".", ".", ".", "]" >>

\* The line of the file that print_error has reported, and the column in it
\* of the symbol the error is about.
SourceLine == split(file, 1)[output.line]
Column == scanned.position - LineStart(file, scanned.position)

\* An error has been printed for a symbol that is a character of a line
\* longer than max_error_line_length.
PrintedInLongLine ==
    /\ output # NoOutput
    /\ scanned.position < Len(file)
    /\ Len(SourceLine) > max_error_line_length
    /\ Column < Len(SourceLine)

\* What is printed of a line of which characters a..b are kept.
Elided(line, a, b) ==
    (IF a > 1 THEN Elision ELSE << >>)
      \o SubSeq(line, a, b)
      \o (IF b < Len(line) THEN Elision ELSE << >>)

\* C25: for a symbol in a line longer than 79 characters, the line
\* print_error prints has at most 79 characters, is a stretch of the source
\* line with [...] in place of what was removed before and after it, has the
\* marker under one of its characters, and that character is the one at
\* symbol.position in the source.
C25_ElisionKeepsMarker ==
    PrintedInLongLine =>
        /\ Len(output.line_text) <= max_error_line_length
        /\ \E a \in 1..Len(SourceLine) : \E b \in a..Len(SourceLine) :
              /\ output.line_text = Elided(SourceLine, a, b)
              /\ Column + 1 \in a..b
        /\ output.position < Len(output.line_text)
        /\ output.line_text[output.position + 1] = file[scanned.position + 1]

\* A line has been shortened on both sides of the marker.
C25_Witness ==
    /\ PrintedInLongLine
    /\ Column > 35
    /\ output.position = 39
    /\ Len(output.line_text) = 79
    /\ SubSeq(output.line_text, 1, 5) = Elision
    /\ SubSeq(output.line_text, 75, 79) = Elision

\* A line has been shortened before the marker alone, and after it alone.
ShortenedBefore ==
    /\ PrintedInLongLine
    /\ SubSeq(output.line_text, 1, 5) = Elision
    /\ output.line_text[Len(output.line_text)] # "]"
ShortenedAfter ==
    /\ PrintedInLongLine
    /\ output.line_text[1] # "["
    /\ output.position = Column

\* ------------------------------------------------------------------------
\* Traces and cycles of the driver
\* ------------------------------------------------------------------------

\* C26: between the events of the Gui, every trace is as long as
\* cycles_completed counts, and its entries are BLANK up to the cycles that
\* had been run when its monitor was made, and levels after them.
C26_TracesAsLongAsCyclesCompleted ==
    gui_pc = "idle" =>
        \A m \in DOMAIN monitors_dictionary :
            /\ Len(monitors_dictionary[m]) = cycles_completed
            /\ \A i \in 1..Len(monitors_dictionary[m]) :
                  monitors_dictionary[m][i] = "BLANK" <=> i <= created[m]

\* A run recorded a cycle and then met oscillation; a monitor added after
\* it has a shorter trace than the one that was there.
C26_Witness ==
    /\ gui_pc = "idle"
    /\ cycles_completed = 0
    /\ DOMAIN monitors_dictionary = {"G1", "G2"}
    /\ Len(monitors_dictionary["G1"]) = 1
    /\ Len(monitors_dictionary["G2"]) = 0
    /\ run_log = << TRUE, FALSE >>

\* Until a run has ended in oscillation, the traces are as long as
\* cycles_completed counts.
TracesAsLongUntilOscillation ==
    (gui_pc = "idle" /\ ~ oscillated) =>
        \A m \in DOMAIN monitors_dictionary :
            /\ Len(monitors_dictionary[m]) = cycles_completed
            /\ \A i \in 1..Len(monitors_dictionary[m]) :
                  monitors_dictionary[m][i] = "BLANK" <=> i <= created[m]

\* How many calls of a log returned true.
Successes(log) == Cardinality({ i \in 1..Len(log) : log[i] })

\* C27: in a run, record_signals has been called once for each
\* execute_network call that returned true and for no other; a call that
\* returned false is the last of its run, and leaves the driver idle, ready
\* for the next event.
C27_RecordedOncePerSuccess ==
    /\ records = Successes(run_log)
    /\ \A i \in 1..Len(run_log) : ~ run_log[i] => i = Len(run_log)
    /\ (run_log # << >> /\ ~ run_log[Len(run_log)]) => gui_pc = "idle"
    /\ Len(run_log) <= cycles
    /\ gui_pc = "run_network" =>
         /\ Len(run_log) = cycles - left
         /\ \A m \in DOMAIN monitors_dictionary :
               Len(monitors_dictionary[m]) >= records

\* A run has met oscillation after a cycle that succeeded.
C27_Witness ==
    /\ run_log = << TRUE, FALSE >>
    /\ records = 1
    /\ gui_pc = "idle"

\* A run has gone through after an earlier one ended in oscillation.
RunAfterOscillation ==
    /\ oscillated
    /\ gui_pc = "idle"
    /\ run_log = << TRUE, TRUE >>
    /\ left = 0

\* ------------------------------------------------------------------------
\* The name table: round trip, dense IDs, errors of get_string
\* ------------------------------------------------------------------------

\* The IDs the table has issued.
Issued == 0..(Len(names_table) - 1)

\* C28: get_string of the ID lookup returns for a string is that string,
\* and query and lookup of the string get_string returns for an issued ID
\* give that ID, whatever lookups came before.
C28_RoundTrip ==
    /\ \A name_string \in Strings :
          LET looked == lookup_in(names_table, name_string)
          IN  get_string(looked.names_list, int_(looked.id)) = Returns(name_string)
    /\ \A i \in Issued :
          LET got == get_string(names_table, int_(i))
          IN  /\ got.kind = "return"
              /\ query_in(names_table, got.value) = i
              /\ lookup_in(names_table, got.value)
                   = [names_list |-> names_table, id |-> i]
    /\ call.op = "lookup" =>
          get_string(names_table, int_(call.id)) = Returns(call.arg.string)

\* The third string has just been looked up for the first time.
C28_Witness ==
    /\ call.op = "lookup"
    /\ call.id = 2
    /\ Len(names_table) = 3
    /\ names_table[3] = call.arg.string

\* The table holds the strings looked up, once each, in the order of their
\* first lookup, and lookup has returned the place of its string in it.
DenseInOrder ==
    /\ names_table = first_lookups
    /\ \A i, j \in 1..Len(names_table) :
          names_table[i] = names_table[j] => i = j
    /\ call.op = "lookup" =>
          /\ call.id \in Issued
          /\ names_table[call.id + 1] = call.arg.string

\* A step keeps the ID of every string that has one, and changes the table
\* only if it is the lookup of a string that has none.
TableKept ==
    /\ \A i \in 1..Len(names_table) :
          /\ i <= Len(names_table')
          /\ names_table'[i] = names_table[i]
    /\ names_table' # names_table =>
          /\ call'.op = "lookup"
          /\ call'.arg.string \notin Range(names_table)

\* C29: the IDs issued are 0..n-1 for the n distinct strings looked up, in
\* the order of their first lookup; an ID never changes; only the lookup of
\* a new string changes the table.
C29_DenseStableIds == [] DenseInOrder /\ [][TableKept]_vars

\* A known string has been looked up again after a later one.
C29_Witness ==
    /\ call.op = "lookup"
    /\ Len(names_table) = 3
    /\ call.id = 0

\* An argument that is not an integer: a string, or a float with a
\* fractional part.
NotAnInteger(name_id) ==
    \/ name_id.type = "str"
    \/ name_id.type = "float" /\ name_id.tenths % 10 # 0

\* What C30 asks of a get_string call.
FailsAsStated(made) ==
    /\ NotAnInteger(made.arg) => made.result.kind = "TypeError"
    /\ (made.arg.type = "int" /\ made.arg.tenths < 0) =>
         made.result.kind = "ValueError"
    /\ (made.arg.type = "int" /\ made.arg.tenths \div 10 >= Len(names_table)) =>
         made.result.kind = "None"

\* C30: get_string raises TypeError for an argument that is not an integer,
\* a numeric string included, ValueError for a negative integer, returns
\* None for an integer that is no index of the list, and in all these cases
\* leaves the table as it was.
C30_GetStringFails ==
    [][ call'.op = "get_string" =>
          /\ FailsAsStated(call')
          /\ names_table' = names_table ]_vars

\* get_string of Prelim rjh254 has been given the string "1" and has
\* returned the second name of the table.
C30_Witness ==
    /\ version = "rjh254"
    /\ call.op = "get_string"
    /\ call.arg = str_(<< "1" >>)
    /\ Len(names_table) >= 2
    /\ call.result = Returns(names_table[2])

\* get_string of prelim sai34 fails as stated, for floats without a
\* fractional part too.
GetStringFailsSai34 ==
    (version = "sai34" /\ call.op = "get_string") =>
        /\ FailsAsStated(call)
        /\ call.arg.type # "int" => call.result.kind = "TypeError"

\* get_string of Prelim rjh254 fails as stated unless its argument is a
\* numeric string.
GetStringFailsRjh254 ==
    (version = "rjh254" /\ call.op = "get_string"
       /\ ~ (call.arg.type = "str" /\ isnumeric(call.arg.string))) =>
        FailsAsStated(call)

\* ------------------------------------------------------------------------
\* Parsing the same file twice
\* ------------------------------------------------------------------------

SecondParseClean ==
    /\ pc = "done"
    /\ first_run # << >>
    /\ result = "True"
    /\ Len(devices) >= 2

\* ------------------------------------------------------------------------
\* After the first error
\* ------------------------------------------------------------------------

\* The messages of the errors only Network and Monitors find.
CollaboratorMessages ==
    { error_message[e] : e \in DOMAIN error_message }
      \cup { monitor_message[e] : e \in DOMAIN monitor_message }
      \cup {UnconnectedMessage}

\* The messages of the parser's own tests of a parameter's range.
RangeMessages == {GateRangeMessage, ClockRangeMessage}

\* An error other than the first of the parse has just been reported.
ReportedLater == printed # NoPrint /\ error_count >= 2

\* Once an error is reported, the rest of the parse leaves the devices,
\* their connections and the monitors as they are.
NothingMadeAfterError ==
    [][(error_ /\ first_run' = first_run)
          => (devices' = devices /\ monitors' = monitors)]_vars

\* C32 as stated: once an error is reported the parse makes no device, no
\* connection and no monitor and does not check the network, and no error
\* reported after the first is a semantic one: neither one Network or
\* Monitors finds nor a parameter out of range.
C32_OnlySyntacticAfterFirst ==
    /\ NothingMadeAfterError
    /\ [](ReportedLater
            => printed.message \notin CollaboratorMessages \cup RangeMessages)

\* C32: once an error is reported the parse makes no device, no connection
\* and no monitor and does not check the network, so no error reported after
\* the first is one that Network or Monitors finds; a parameter out of
\* range, which the parser tests itself, is still reported.
C32_NoCollaboratorErrorAfterFirst ==
    /\ NothingMadeAfterError
    /\ [](ReportedLater => printed.message \notin CollaboratorMessages)

\* A parameter out of range has been reported as the second error.
C32_Witness ==
    /\ Reported(GateRangeMessage)
    /\ error_count = 2
    /\ source = late_range_file

\* The parse of a file with a connection statement has ended after one
\* error, reported before anything was made.
NothingMadeAfterFirst ==
    /\ pc = "done"
    /\ error_count = 1
    /\ devices = << >>
    /\ monitors = {}
    /\ \E k \in 1..Len(source) : source[k] = ">"

\* ------------------------------------------------------------------------
\* The diagnostic of a connection statement
\* ------------------------------------------------------------------------

\* __con is about to call make_connection for destination con_i.
Connecting ==
    pc = "con_make" /\ ~error_ /\ con_i <= Len(cur_device_name_list)

\* What that call returns.
ConnectingError ==
    connection_error(devices, query(out_device_sym.string),
                     query(out_pin_sym.string),
                     query(cur_device_name_list[con_i].string),
                     query(cur_pin_name_list[con_i].string))

\* The token the statement's diagnostic belongs at, by error code.
Anchor ==
    CASE ConnectingError \in {"INPUT_CONNECTED", "PORT_ABSENT_2"}
           -> cur_pin_name_list[con_i]
      [] ConnectingError = "DEVICE_ABSENT_2" -> cur_device_name_list[con_i]
      [] ConnectingError = "DEVICE_ABSENT_1" -> out_device_sym
      [] ConnectingError = "PORT_ABSENT_1" -> out_pin_sym
      [] OTHER -> cur_arrow

\* The destinations are connected in source order to the statement's source:
\* a call that succeeds connects destination con_i and goes on to the next,
\* a call that fails connects nothing and is the last.
ConnectedInOrder ==
    [][Connecting =>
         /\ devices' = make_connection(devices, query(out_device_sym.string),
                           query(out_pin_sym.string),
                           query(cur_device_name_list[con_i].string),
                           query(cur_pin_name_list[con_i].string))
         /\ IF ConnectingError = "NO_ERROR"
            THEN con_i' = con_i + 1 /\ pc' = "con_make" /\ ~error_'
                   /\ error_count' = error_count
            ELSE devices' = devices /\ error_' /\ pc' # "con_make"]_vars

\* A statement whose call failed ends without another error.
OneErrorForStatement ==
    [][(pc = "con_end" /\ printed # NoPrint
          /\ printed.message \in { error_message[e] : e \in DOMAIN error_message })
         => (error_count' = error_count /\ error_count = 1)]_vars

\* C33: with no earlier error, the destinations of a connection statement
\* are connected in source order and the loop stops at the first error code,
\* for which exactly one diagnostic is issued, anchored at a token of the
\* statement: the destination's pin for INPUT_CONNECTED and PORT_ABSENT_2,
\* the destination's device for DEVICE_ABSENT_2, the source's device for
\* DEVICE_ABSENT_1, the source's pin for PORT_ABSENT_1, the arrow otherwise.
C33_OneDiagnosticAtToken ==
    /\ ConnectedInOrder
    /\ OneErrorForStatement
    /\ [][(Connecting /\ ConnectingError # "NO_ERROR")
            => /\ printed' = [message |-> error_message[ConnectingError],
                              symbol |-> Anchor]
               /\ Anchor.position # None
               /\ pc' = "con_end"
               /\ error_count' = 1]_vars

\* The same where the diagnostic's token exists; print_error raises where the
\* point the diagnostic belongs at was written without a pin.
ConDiagnosticWhereTokenExists ==
    /\ ConnectedInOrder
    /\ OneErrorForStatement
    /\ [][(Connecting /\ ConnectingError # "NO_ERROR")
            => /\ printed' = [message |-> error_message[ConnectingError],
                              symbol |-> Anchor]
               /\ error_count' = 1
               /\ IF Anchor.position # None
                  THEN pc' = "con_end"
                  ELSE pc' = "raised" /\ error_msg' = error_msg]_vars

\* The second destination of a statement has just been refused, the first
\* one connected.
C33_Witness ==
    /\ pc = "con_end"
    /\ error_count = 1
    /\ Len(cur_device_name_list) >= 2
    /\ Len(cur_pin_name_list) >= 2
    /\ printed.message = error_message["INPUT_CONNECTED"]
    /\ printed.symbol = cur_pin_name_list[2]
    /\ \E i \in 1..Len(devices) :
         \E p \in DOMAIN devices[i].inputs :
            devices[i].inputs[p] # NotConnected

\* ------------------------------------------------------------------------
\* print_error and the scanning
\* ------------------------------------------------------------------------

\* C34: a call of print_error between calls of get_symbol leaves the file's
\* read position, current_character, file_position and comment as they
\* were, so that the symbols get_symbol returns afterwards, which depend on
\* these and the file alone, are those it would have returned without the
\* call. (Every call of get_symbol returns a symbol with a new position, so
\* the steps that keep the symbol are the calls of print_error.)
C34_PrintErrorLeavesScanner ==
    [][(scanned' = scanned)
         => /\ scanner'.tell = scanner.tell
            /\ scanner'.current_character = scanner.current_character
            /\ scanner'.file_position = scanner.file_position
            /\ scanner'.comment = scanner.comment]_vars

\* An error has been printed for a symbol on the second line or later, with
\* more of the file still to be read.
C34_Witness ==
    /\ output # NoOutput
    /\ output.line >= 2
    /\ scanned.type \notin {"None", "EOF"}
    /\ 0 < scanner.tell
    /\ scanner.tell < Len(file)

\* ------------------------------------------------------------------------
\* The end of the file inside a comment
\* ------------------------------------------------------------------------

\* C35: when the file ends inside a comment, the call of get_symbol that
\* returns the first EOF prints the error, and no call made after EOF has
\* been returned prints anything: the error is printed once for the file.
C35_OpenCommentReportedOnce ==
    /\ [][(scanned.type # "EOF" /\ scanned'.type = "EOF" /\ scanner'.comment)
            => output' # NoOutput]_vars
    /\ [][(scanned.type = "EOF" /\ scanned' # scanned)
            => output' = NoOutput]_vars

\* What the code does: every call that returns EOF with the comment open
\* prints the error, the first and the later ones alike.
OpenCommentReportedAtEveryEOF ==
    [][(scanned' # scanned)
         => ((output' # NoOutput)
               <=> (scanned'.type = "EOF" /\ scanner'.comment))]_vars

\* The error has been printed again by a call made after the first EOF.
C35_Witness ==
    /\ scanned.type = "EOF"
    /\ scanner.comment
    /\ scanned.position > Len(file)
    /\ output # NoOutput

\* ------------------------------------------------------------------------
\* After a missing semicolon
\* ------------------------------------------------------------------------

\* The i-th error reported is "Expected ';'", which __error is always called
\* for with no stopping symbol; another error was reported after it.
SemicolonThenAnother(i) ==
    /\ i < Len(error_msg.blocks)
    /\ error_msg.blocks[i].message = "Expected ';'"

\* C36: the error reported next after an "Expected ';'" is not anchored at
\* the token the "Expected ';'" was anchored at, and the file with the
\* clause `A = XOR(2);` is parsed with exactly one error.
C36_NoCascadeAfterSemicolon ==
    /\ \A i \in 1..Len(error_msg.blocks) :
         SemicolonThenAnother(i)
           => error_msg.blocks[i + 1].symbol.position
                # error_msg.blocks[i].symbol.position
    /\ (source = xor_param_file /\ pc = "done") => error_count = 1

\* What the code does in a device list: the token "Expected ';'" was
\* reported at is the one the next clause starts with, and unless it is a
\* name the next error is reported at it as well.
SemicolonCascadesInDevices ==
    (source = xor_param_file /\ pc = "done")
      => /\ error_count = 2
         /\ error_msg.blocks[1].message = "Expected ';'"
         /\ error_msg.blocks[2].message
              = "Device names must start with a letter and be alphanumeric"
         /\ error_msg.blocks[2].symbol = error_msg.blocks[1].symbol
         /\ error_msg.blocks[1].symbol.string = "("
         /\ \E i \in 1..Len(devices) : devices[i].device_kind = "XOR"

\* The file with `A = XOR(2);` has been parsed to its end.
C36_Witness ==
    /\ source = xor_param_file
    /\ pc = "done"
    /\ error_count = 2
    /\ error_msg.blocks[2].symbol = error_msg.blocks[1].symbol

\* ------------------------------------------------------------------------
\* After END
\* ------------------------------------------------------------------------

\* C37: parse_network returns true only if the file ends with the END of
\* the circuit: the symbol read after END is EOF, and END is the last token.
C37_AcceptedOnlyWhole ==
    (pc = "done" /\ result = "True")
      => /\ symbol.type = "EOF"
         /\ source[Len(source)] = "END"
         /\ pos = Len(source) + 1

\* What the code does: parse_network reads one symbol after END and returns
\* without looking at it.
AcceptedUpToEND ==
    (pc = "done" /\ result = "True")
      => /\ pos >= 2
         /\ pos - 1 <= Len(source)
         /\ source[pos - 1] = "END"
         /\ symbol = symbol_at(pos - 1)
         /\ error_count = 0

\* A file with a token after END has been accepted.
C37_Witness ==
    /\ pc = "done"
    /\ result = "True"
    /\ symbol.type # "EOF"
    /\ Len(devices) >= 2
    /\ monitors # {}

\* ------------------------------------------------------------------------
\* Replace and Undo
\* ------------------------------------------------------------------------

\* The latest on_replace_button replaced a connection and the user chose
\* Undo.
Undone == Len(replace_log) = 2

\* C38: when a replacement that succeeded is undone, the second
\* replace_connection call is the first with the new and the old source
\* exchanged, it succeeds, the input is connected to its original output
\* again, and the connections of the other inputs are those from before
\* after both calls.
C38_ReplaceUndoRoundTrip ==
    Undone =>
      LET replacing == replace_log[1]
          undoing == replace_log[2]
      IN  /\ replacing.error = "NO_ERROR"
          /\ undoing.input = replacing.input
          /\ undoing.new = replacing.old
          /\ undoing.old = replacing.new
          /\ undoing.before = replacing.after
          /\ undoing.error = "NO_ERROR"
          /\ replacing.after[replacing.input] = replacing.new
          /\ get_connected_output(connections, replacing.input) = replacing.old
          /\ connections = undoing.after
          /\ connections = replacing.before
          /\ \A i \in SwapInputs \ {replacing.input} :
                /\ replacing.after[i] = replacing.before[i]
                /\ undoing.after[i] = replacing.before[i]

\* A replacement that changed the source of an input has been undone.
C38_Witness ==
    /\ Undone
    /\ replace_log[1].new # replace_log[1].old
    /\ replace_log[1].after # replace_log[1].before
    /\ connections = replace_log[1].before

\* C39: the output on_replace_button hands to replace_connection was chosen
\* in the new-connection box while the input it is applied to was the one
\* selected, and is not the output that input is connected to.
C39_ChoiceMadeForSelectedInput ==
    Len(replace_log) >= 1 =>
      /\ replace_log[1].chosen_for = replace_log[1].input
      /\ replace_log[1].new # replace_log[1].old
      /\ << get_signal_name(replace_log[1].new),
            get_signal_name(replace_log[1].input) >>
           \in get_new_conn_options(replace_log[1].before,
                                    get_signal_name(replace_log[1].input))

\* What the code guarantees: the output was chosen in the new-connection box
\* for some input selected since the last reset.
ChoiceMadeForSomeInput ==
    Len(replace_log) >= 1 =>
      /\ replace_log[1].chosen_for \in SwapInputs
      /\ replace_log[1].new \in SwapOutputs
      /\ replace_log[1].old = replace_log[1].before[replace_log[1].input]

\* An output chosen for one input has been made the source of another.
C39_Witness ==
    /\ Len(replace_log) >= 1
    /\ replace_log[1].chosen_for # replace_log[1].input
    /\ replace_log[1].error = "NO_ERROR"
    /\ replace_log[1].after # replace_log[1].before

\* The output an input was connected to already has been handed to
\* replace_connection as its new source.
StaleChoiceOfCurrentSource ==
    /\ Len(replace_log) >= 1
    /\ replace_log[1].new = replace_log[1].old
    /\ replace_log[1].chosen_for # replace_log[1].input


====
